---- MODULE Spec2Model ----
(***************************************************************************)
(* Verification model of the META II toolkit (pedronis/meta):              *)
(*   - the Meta Virtual Machine  M   (meta/src/lib.rs)                      *)
(*   - the shared assembler MProgram (mparse/src/lib.rs) and the one built  *)
(*     into valgol1m (valgol1m/src/lib.rs)                                  *)
(* Text is modelled as a sequence of one-character strings; a byte offset   *)
(* of the Rust code is the number of characters before it (ASCII only).     *)
(***************************************************************************)
EXTENDS Integers, Sequences, FiniteSets, TLC

(***************************************************************************)
(* Bounds of the model.                                                    *)
(***************************************************************************)
\* SpecScan: longest input text that is enumerated exhaustively
MaxLen == 3
\* SpecStk: deepest nesting of calls, highest label counter, longest output
StkDepth == 2
StkCnt == 2
StkOut == 10
\* SpecFrm: longest output, deepest nesting of calls, highest label counter
FrmOut == 9
FrmDepth == 1
FrmCnt == 1
\* SpecRef: longest output (the indentation and some labels)
RefOut == 28
\* SpecOut: longest output, deepest nesting of calls, highest label counter
OutLen == 12
OutDepth == 1
OutCnt == 1
\* SpecAsm: lines of an assembled text
MaxLines == 3

(***************************************************************************)
(* Characters.                                                             *)
(***************************************************************************)
\* char::is_ascii_whitespace: SPACE, TAB, LF, FF, CR
AsciiWs == {" ", "\t", "\n", "\f", "\r"}

\* char::is_ascii_digit
AsciiDigit == {"0", "1", "2", "3", "4", "5", "6", "7", "8", "9"}

\* char::is_ascii_alphabetic
AsciiAlpha ==
    {"A", "B", "C", "D", "E", "F", "G", "H", "I", "J", "K", "L", "M",
     "N", "O", "P", "Q", "R", "S", "T", "U", "V", "W", "X", "Y", "Z",
     "a", "b", "c", "d", "e", "f", "g", "h", "i", "j", "k", "l", "m",
     "n", "o", "p", "q", "r", "s", "t", "u", "v", "w", "x", "y", "z"}

\* char::is_ascii_alphanumeric
AsciiAlnum == AsciiAlpha \cup AsciiDigit

\* the character U+000B (vertical tab), which has no escape in a TLA+ string
VT == "VT"

\* char::is_whitespace restricted to ASCII (what str::trim_start removes):
\* the ASCII whitespace of above plus VT
UniWs == AsciiWs \cup {VT}

\* &s[from..]  (from is a 0-based offset)
From(s, from) == SubSeq(s, from + 1, Len(s))

\* &s[from..to]
Slice(s, from, to) == SubSeq(s, from + 1, to)

\* str::starts_with
StartsWith(s, p) == Len(p) <= Len(s) /\ SubSeq(s, 1, Len(p)) = p

\* " ".repeat(n)
RECURSIVE Spaces(_)
Spaces(n) == IF n = 0 THEN <<>> ELSE <<" ">> \o Spaces(n - 1)

\* str::trim_start
RECURSIVE TrimStart(_)
TrimStart(s) ==
    IF s # <<>> /\ Head(s) \in UniWs THEN TrimStart(Tail(s)) ELSE s

\* str::rfind('\n'): 0-based offset of the last newline, -1 for None
RECURSIVE RFindNl(_)
RFindNl(s) ==
    IF s = <<>> THEN -1
    ELSE IF s[Len(s)] = "\n" THEN Len(s) - 1
    ELSE RFindNl(SubSeq(s, 1, Len(s) - 1))

(***************************************************************************)
(* The Meta Virtual Machine: struct M of meta/src/lib.rs.                  *)
(* A machine value is a record of the fields of M plus `trap`, which is     *)
(* TRUE once an operation has panicked.                                     *)
(***************************************************************************)
\* MStackVal::Lb(s)
Lb(s) == [t |-> "Lb", s |-> s]

\* MStackVal::Back { ric, blanks }
Back(ric, blanks) == [t |-> "Back", ric |-> ric, blanks |-> blanks]

\* new with a slip: the switch starts true
new_swtrue(inp) ==
    [input |-> inp, pos |-> 0, sw |-> TRUE, last |-> <<>>, a_cnt |-> 0,
     b_cnt |-> 0, output |-> Spaces(8), stk |-> <<>>, trap |-> FALSE]

\* M::new
new(inp) ==
    [input |-> inp, pos |-> 0, sw |-> FALSE, last |-> <<>>,
     a_cnt |-> 0, b_cnt |-> 0, output |-> Spaces(8), stk |-> <<>>,
     trap |-> FALSE]

\* the while loops of eat_ws / id / num: first offset >= p whose character
\* is not in class C
RECURSIVE SkipWhile(_, _, _)
SkipWhile(s, p, C) ==
    IF p < Len(s) /\ s[p + 1] \in C THEN SkipWhile(s, p + 1, C) ELSE p

\* eat_ws with a slip: no whitespace is skipped
eat_ws_noskip(m) == m

\* M::eat_ws
eat_ws(m) == [m EXCEPT !.pos = SkipWhile(m.input, m.pos, AsciiWs)]

\* tst with a slip: pos is advanced whether or not s was found
tst_overrun(m, s) ==
    LET m1 == eat_ws(m)
        rest == From(m1.input, m1.pos)
    IN  [m1 EXCEPT !.pos = m1.pos + Len(s),
                   !.last = IF StartsWith(rest, s)
                            THEN Slice(m1.input, m1.pos, m1.pos + Len(s))
                            ELSE m1.last,
                   !.sw = StartsWith(rest, s)]

\* M::tst
tst(m, s) ==
    LET m1 == eat_ws(m)
        rest == From(m1.input, m1.pos)
    IN  IF StartsWith(rest, s)
        THEN [m1 EXCEPT !.pos = m1.pos + Len(s),
                        !.last = Slice(m1.input, m1.pos, m1.pos + Len(s)),
                        !.sw = TRUE]
        ELSE [m1 EXCEPT !.sw = FALSE]

\* id with a slip: last is taken from the offset before the whitespace was
\* skipped and stops one character short of pos
id_shortlast(m) ==
    LET m1 == eat_ws(m)
        rest == From(m1.input, m1.pos)
    IN  IF rest = <<>> \/ Head(rest) \notin AsciiAlpha
        THEN [m1 EXCEPT !.sw = FALSE]
        ELSE LET end == SkipWhile(m1.input, m1.pos, AsciiAlnum)
             IN  [m1 EXCEPT !.sw = TRUE, !.pos = end,
                            !.last = Slice(m1.input, m1.pos, end - 1)]

\* M::id
id(m) ==
    LET m1 == eat_ws(m)
        rest == From(m1.input, m1.pos)
    IN  IF rest = <<>> \/ Head(rest) \notin AsciiAlpha
        THEN [m1 EXCEPT !.sw = FALSE]
        ELSE LET end == SkipWhile(m1.input, m1.pos, AsciiAlnum)
             IN  [m1 EXCEPT !.sw = TRUE, !.pos = end,
                            !.last = Slice(m1.input, m1.pos, end)]

\* num with a slip: when the run is malformed its leading digits are taken
num_prefix(m) ==
    LET m1 == eat_ws(m)
        rest == From(m1.input, m1.pos)
    IN  IF rest = <<>> \/ Head(rest) \notin AsciiDigit
        THEN [m1 EXCEPT !.sw = FALSE]
        ELSE LET end == SkipWhile(m1.input, m1.pos, AsciiDigit \cup {"."})
                 n == Slice(m1.input, m1.pos, end)
                 bad == \/ n[Len(n)] = "."
                        \/ \E i \in 1..(Len(n) - 1) :
                              n[i] = "." /\ n[i + 1] = "."
                 short == SkipWhile(m1.input, m1.pos, AsciiDigit)
             IN  IF bad
                 THEN [m1 EXCEPT !.pos = short, !.sw = TRUE,
                                 !.last = Slice(m1.input, m1.pos, short)]
                 ELSE [m1 EXCEPT !.pos = end, !.sw = TRUE, !.last = n]

\* M::num
num(m) ==
    LET m1 == eat_ws(m)
        rest == From(m1.input, m1.pos)
    IN  IF rest = <<>> \/ Head(rest) \notin AsciiDigit
        THEN [m1 EXCEPT !.sw = FALSE]
        ELSE LET end == SkipWhile(m1.input, m1.pos, AsciiDigit \cup {"."})
                 n == Slice(m1.input, m1.pos, end)
                 \* n.ends_with('.') || n.contains("..")
                 bad == \/ n[Len(n)] = "."
                        \/ \E i \in 1..(Len(n) - 1) :
                              n[i] = "." /\ n[i + 1] = "."
             IN  IF bad
                 THEN [m1 EXCEPT !.sw = FALSE]
                 ELSE [m1 EXCEPT !.pos = end, !.sw = TRUE, !.last = n]

\* M::sr
sr(m) ==
    LET m1 == eat_ws(m)
        rest == From(m1.input, m1.pos)
        \* the loop: from offset `from`, step to the offset just past the
        \* next quote, or to the end of the input if there is none
        RECURSIVE SrEnd(_, _)
        SrEnd(s, from) ==
            LET e == from + 1
            IN  IF e >= Len(s) THEN e
                ELSE IF s[e + 1] = "'" THEN e + 1
                ELSE SrEnd(s, e)
    IN  IF ~StartsWith(rest, <<"'">>)
        THEN [m1 EXCEPT !.sw = FALSE]
        ELSE LET end == SrEnd(m1.input, m1.pos)
                 str == Slice(m1.input, m1.pos, end)
             IN  IF ~(Len(str) > 0 /\ str[Len(str)] = "'")
                 THEN [m1 EXCEPT !.sw = FALSE]
                 ELSE [m1 EXCEPT !.sw = TRUE, !.last = str, !.pos = end]

\* cll with a slip: the new frame starts with the label slots of its caller
cll_shared(m, ric) ==
    LET sz == Len(m.stk)
    IN  IF sz >= 2
        THEN [m EXCEPT !.stk = m.stk \o <<Back(ric, FALSE), m.stk[sz - 1],
                                          m.stk[sz]>>]
        ELSE [m EXCEPT !.stk = m.stk \o <<Back(ric, FALSE), Lb(<<>>), Lb(<<>>)>>]

\* cll with a slip: the two blank slots are removed but blanks is not set
cll_noflag(m, ric) ==
    LET sz == Len(m.stk)
        blanks == /\ sz >= 2
                  /\ m.stk[sz - 1].t = "Lb" /\ m.stk[sz - 1].s = <<>>
                  /\ m.stk[sz].t = "Lb" /\ m.stk[sz].s = <<>>
        base == IF blanks THEN SubSeq(m.stk, 1, sz - 2) ELSE m.stk
    IN  [m EXCEPT !.stk = base \o <<Back(ric, FALSE), Lb(<<>>), Lb(<<>>)>>]

\* M::cll without its removal of blank slots: the cll of the reference
\* machine, whose markers all have blanks false, so that M::r restores nothing
ref_cll(m, ric) ==
    [m EXCEPT !.stk = m.stk \o <<Back(ric, FALSE), Lb(<<>>), Lb(<<>>)>>]

\* cll with a slip: blanks is recorded but the two blank slots stay
cll_nodrain(m, ric) ==
    LET sz == Len(m.stk)
        blanks == /\ sz >= 2
                  /\ m.stk[sz - 1].t = "Lb" /\ m.stk[sz - 1].s = <<>>
                  /\ m.stk[sz].t = "Lb" /\ m.stk[sz].s = <<>>
    IN  [m EXCEPT !.stk = m.stk \o <<Back(ric, blanks), Lb(<<>>), Lb(<<>>)>>]

\* M::cll
cll(m, ric) ==
    LET sz == Len(m.stk)
        blanks == /\ sz >= 2
                  /\ m.stk[sz - 1].t = "Lb" /\ m.stk[sz - 1].s = <<>>
                  /\ m.stk[sz].t = "Lb" /\ m.stk[sz].s = <<>>
        base == IF blanks THEN SubSeq(m.stk, 1, sz - 2) ELSE m.stk
    IN  [m EXCEPT !.stk = base \o <<Back(ric, blanks), Lb(<<>>), Lb(<<>>)>>]

\* r with a slip: the slots a collapsing cll removed are not pushed back
r_norestore(m) ==
    LET sz == Len(m.stk)
    IN  IF sz >= 3 /\ m.stk[sz - 2].t = "Back"
        THEN [m EXCEPT !.stk = SubSeq(m.stk, 1, sz - 3)]
        ELSE [m EXCEPT !.trap = TRUE]

\* M::r, the machine after the return (trap: "machine state stack
\* unmatched return")
r(m) ==
    LET sz == Len(m.stk)
    IN  IF sz >= 3 /\ m.stk[sz - 2].t = "Back"
        THEN LET base == SubSeq(m.stk, 1, sz - 3)
             IN  [m EXCEPT !.stk = IF m.stk[sz - 2].blanks
                                   THEN base \o <<Lb(<<>>), Lb(<<>>)>>
                                   ELSE base]
        ELSE [m EXCEPT !.trap = TRUE]

\* M::r, the value it returns (-1 when it panics and returns nothing)
r_ric(m) ==
    LET sz == Len(m.stk)
    IN  IF sz >= 3 /\ m.stk[sz - 2].t = "Back" THEN m.stk[sz - 2].ric ELSE -1

\* M::set
set(m) == [m EXCEPT !.sw = TRUE]

\* be with a slip: the switch is not tested
be_always(m) == "Ok"

\* M::be: "Ok" for Ok(Recognized), "Err" for Err(SynError::Unexpected)
be(m) == IF ~m.sw THEN "Err" ELSE "Ok"

\* M::cl
cl(m, s) == [m EXCEPT !.output = (m.output \o s) \o <<" ">>]

\* M::ci with a slip: the token copied is taken out of last
ci_take(m) ==
    IF m.sw THEN [m EXCEPT !.output = m.output \o m.last, !.last = <<>>]
    ELSE m

\* M::ci
ci(m) == IF m.sw THEN [m EXCEPT !.output = m.output \o m.last] ELSE m

\* decimal digits of n, most significant first
DigitChar == <<"0", "1", "2", "3", "4", "5", "6", "7", "8", "9">>

RECURSIVE Decimal(_)
Decimal(n) ==
    IF n < 10 THEN <<DigitChar[n + 1]>>
    ELSE Decimal(n \div 10) \o <<DigitChar[(n % 10) + 1]>>

\* format!("{:03}", n): decimal, left-padded with zeros to width 3
Pad3(n) ==
    LET d == Decimal(n)
    IN  IF Len(d) >= 3 THEN d
        ELSE IF Len(d) = 2 THEN <<"0">> \o d
        ELSE <<"0", "0">> \o d

\* a_cnt and b_cnt are u16: the increment is taken modulo 2^16
U16 == 65536

\* gn1 with a slip: the fresh label is not stored in the A-slot
gn1_nostore(m) ==
    LET sz == Len(m.stk)
    IN  IF sz >= 2 /\ m.stk[sz - 1].t = "Lb"
        THEN IF m.stk[sz - 1].s = <<>>
             THEN LET cnt == (m.a_cnt + 1) % U16
                      newlb == <<"A">> \o Pad3(cnt)
                  IN  [m EXCEPT !.a_cnt = cnt,
                                !.output = (m.output \o newlb) \o <<" ">>]
             ELSE [m EXCEPT !.output = (m.output \o m.stk[sz - 1].s) \o <<" ">>]
        ELSE [m EXCEPT !.trap = TRUE]

\* M::gn1 (trap: "malformed machine state stack")
gn1(m) ==
    LET sz == Len(m.stk)
    IN  IF sz >= 2 /\ m.stk[sz - 1].t = "Lb"
        THEN IF m.stk[sz - 1].s = <<>>
             THEN LET cnt == (m.a_cnt + 1) % U16
                      newlb == <<"A">> \o Pad3(cnt)
                  IN  [m EXCEPT !.a_cnt = cnt,
                                !.stk[sz - 1] = Lb(newlb),
                                !.output = (m.output \o newlb) \o <<" ">>]
             ELSE [m EXCEPT !.output = (m.output \o m.stk[sz - 1].s) \o <<" ">>]
        ELSE [m EXCEPT !.trap = TRUE]

\* gn2 with a slip: the slot of the A-label is used
gn2_aslot(m) ==
    LET sz == Len(m.stk)
    IN  IF sz >= 2 /\ m.stk[sz - 1].t = "Lb"
        THEN IF m.stk[sz - 1].s = <<>>
             THEN LET cnt == (m.b_cnt + 1) % U16
                      newlb == <<"B">> \o Pad3(cnt)
                  IN  [m EXCEPT !.b_cnt = cnt,
                                !.stk[sz - 1] = Lb(newlb),
                                !.output = (m.output \o newlb) \o <<" ">>]
             ELSE [m EXCEPT !.output = (m.output \o m.stk[sz - 1].s) \o <<" ">>]
        ELSE [m EXCEPT !.trap = TRUE]

\* M::gn2 (trap: "malformed machine state stack")
gn2(m) ==
    LET sz == Len(m.stk)
    IN  IF sz >= 1 /\ m.stk[sz].t = "Lb"
        THEN IF m.stk[sz].s = <<>>
             THEN LET cnt == (m.b_cnt + 1) % U16
                      newlb == <<"B">> \o Pad3(cnt)
                  IN  [m EXCEPT !.b_cnt = cnt,
                                !.stk[sz] = Lb(newlb),
                                !.output = (m.output \o newlb) \o <<" ">>]
             ELSE [m EXCEPT !.output = (m.output \o m.stk[sz].s) \o <<" ">>]
        ELSE [m EXCEPT !.trap = TRUE]

\* M::out
out(m) == [m EXCEPT !.output = (m.output \o <<"\n">>) \o Spaces(8)]

\* lb with a slip: the newline is truncated away with the line
lb_eatnl(m) ==
    LET nl == RFindNl(m.output)
    IN  IF nl >= 0 THEN [m EXCEPT !.output = SubSeq(m.output, 1, nl)]
        ELSE [m EXCEPT !.output = <<>>]

\* lb with a slip: the whole buffer is truncated
lb_all(m) == [m EXCEPT !.output = <<>>]

\* M::lb
lb(m) ==
    LET nl == RFindNl(m.output)
    IN  IF nl >= 0 THEN [m EXCEPT !.output = SubSeq(m.output, 1, nl + 1)]
        ELSE [m EXCEPT !.output = <<>>]

\* left with a slip: nothing is trimmed
left_untrimmed(m) == From(m.input, m.pos)

\* M::left
left(m) == TrimStart(From(m.input, m.pos))

\* generated with a slip: the switch is not tested
generated_nobe(m) ==
    IF left(m) # <<>> THEN [ok |-> FALSE, out |-> <<>>]
    ELSE [ok |-> TRUE, out |-> m.output]

\* M::generated: Ok(output) or Err(SynError::Unexpected)
generated(m) ==
    IF be(m) = "Err" THEN [ok |-> FALSE, out |-> <<>>]
    ELSE IF left(m) # <<>> THEN [ok |-> FALSE, out |-> <<>>]
    ELSE [ok |-> TRUE, out |-> m.output]

(***************************************************************************)
(* The lexer: minilexer/src/lib.rs.  A lexer value is the text its         *)
(* iterator has not consumed yet; the symbol table is a set of texts.      *)
(***************************************************************************)
\* Token::WS, Id, Num, Symbol, Str, End
Tok(k, v) == [k |-> k, v |-> v]

\* the fixed parts of the error messages of the lexer and the assembler
Msg ==
    [notsym |->
       <<"n", "o", "t", " ", "a", " ", "s", "y", "m", "b", "o", "l", " ">>,
     float |->
       <<"i", "n", "v", "a", "l", "i", "d", " ", "f", "l", "o", "a", "t", " ", "l", "i", "t", "e", "r", "a", "l">>,
     unexpected |->
       <<"u", "n", "e", "x", "p", "e", "c", "t", "e", "d", " ">>,
     blkuse |->
       <<"B", "L", "K", " ", "u", "s", "e", " ", "i", "s", " ", "i", "n", "v", "a", "l", "i", "d">>,
     blkinv |->
       <<"i", "n", "v", "a", "l", "i", "d", " ", "B", "L", "K", ":", " ", "{", "l", "i", "n", "e", "}">>,
     line |->
       <<"i", "n", "v", "a", "l", "i", "d", " ", "l", "i", "n", "e", " ">>,
     instr |->
       <<"i", "n", "v", "a", "l", "i", "d", " ", "i", "n", "s", "t", "r", "u", "c", "t", "i", "o", "n", " ">>,
     unknown |->
       <<"u", "n", "k", "n", "o", "w", "n", " ", "l", "a", "b", "e", "l", " ">>,
     unmatched |->
       <<"i", "n", "t", "e", "r", "n", "a", "l", " ", "e", "r", "r", "o", "r", ":", " ", "u", "n", "m", "a", "t", "c", "h", "e", "d", " ", "a", "d", "d", "r", " ">>,
     foric |->
       <<" ", "f", "o", "r", " ", "i", "c">>,
     counter |->
       <<"i", "n", "s", "t", "r", "u", "c", "t", "i", "o", "n", " ", "c", "o", "u", "n", "t", "e", "r", " ">>,
     for |->
       <<" ", "f", "o", "r", " ">>,
     without |->
       <<" ", "w", "i", "t", "h", "o", "u", "t", " ", "i", "n", "s", "t", "r", "u", "c", "t", "i", "o", "n">>]

\* what next_token returns: Ok(tok) or Err, and the text left in the iterator
LexOk(tok, rest) == [ok |-> TRUE, tok |-> tok, rest |-> rest, msg |-> <<>>]
LexErr(rest, msg) ==
    [ok |-> FALSE, tok |-> Tok("End", <<>>), rest |-> rest, msg |-> msg]

\* Lexer::new
Lexer(txt, syms) == [it |-> txt, syms |-> syms]

\* Lexer::is_sym_start
is_sym_start(syms, s) == \E symb \in syms : StartsWith(symb, s)

\* value of a run of digits (0 for the empty run)
RECURSIVE DigitsVal(_)
DigitsVal(ds) ==
    LET DigitVal(c) == CHOOSE v \in 0..9 : DigitChar[v + 1] = c
    IN  IF ds = <<>> THEN 0
        ELSE DigitsVal(SubSeq(ds, 1, Len(ds) - 1)) * 10
             + DigitVal(ds[Len(ds)])

\* str::parse::<f64> of a text of digits and dots that holds a digit: an
\* error if there are two dots, otherwise the value as its whole part `int`
\* and the digits of its fraction without trailing zeros, `frac`
ParseF64(t) ==
    LET dots == {i \in 1..Len(t) : t[i] = "."}
        RECURSIVE StripZeros(_)
        StripZeros(ds) ==
            IF ds # <<>> /\ ds[Len(ds)] = "0"
            THEN StripZeros(SubSeq(ds, 1, Len(ds) - 1)) ELSE ds
    IN  IF Cardinality(dots) > 1 THEN [ok |-> FALSE]
        ELSE IF dots = {}
        THEN [ok |-> TRUE, int |-> DigitsVal(t), frac |-> <<>>]
        ELSE LET d == CHOOSE i \in dots : TRUE
             IN  [ok |-> TRUE,
                  int |-> DigitsVal(SubSeq(t, 1, d - 1)),
                  frac |-> StripZeros(SubSeq(t, d + 1, Len(t)))]

\* next_token with a slip: ParseWS breaks on every character, so a WS token
\* takes one whitespace character
next_token_onews(symtab, src) ==
    LET RECURSIVE LexLoop(_, _, _, _)
        \* the end: the token for the state the loop stopped in
        LexFinish(st, tok, rest) ==
            CASE st = "ParseNum" ->
                    IF ParseF64(tok).ok
                    THEN LexOk(Tok("Num", [int |-> ParseF64(tok).int,
                                       frac |-> ParseF64(tok).frac]), rest)
                    ELSE LexErr(rest, Msg.float)
              [] st = "ParseStart" -> LexOk(Tok("End", <<>>), rest)
              [] st = "ParseWS" -> LexOk(Tok("WS", <<>>), rest)
              [] st = "ParseId" -> LexOk(Tok("Id", tok), rest)
              [] st = "ParseSymbol" -> LexOk(Tok("Symbol", tok), rest)
              [] st = "ParseStr" -> LexOk(Tok("Str", tok), rest)
        \* the while loop, in state st with tok accumulated
        LexLoop(syms, st, tok, rest) ==
            IF rest = <<>> THEN LexFinish(st, tok, rest)
            ELSE
            LET ch == Head(rest)
                nx == Tail(rest)
            IN  CASE st = "ParseStart" ->
                       IF ch \in AsciiWs THEN LexLoop(syms, "ParseWS", tok, nx)
                       ELSE IF ch \in AsciiAlpha
                       THEN LexLoop(syms, "ParseId", Append(tok, ch), nx)
                       ELSE IF ch \in AsciiDigit
                       THEN LexLoop(syms, "ParseNum", Append(tok, ch), nx)
                       ELSE IF ch = "'" THEN LexLoop(syms, "ParseStr", tok, nx)
                       ELSE IF ch = "."
                       THEN IF nx # <<>> /\ Head(nx) \in AsciiDigit
                            THEN LexLoop(syms, "ParseNum", Append(tok, ch), nx)
                            ELSE IF ~is_sym_start(syms, Append(tok, ch))
                            THEN LexErr(nx, Msg.notsym \o Append(tok, ch))
                            ELSE LexLoop(syms, "ParseSymbol", Append(tok, ch), nx)
                       ELSE IF ~is_sym_start(syms, Append(tok, ch))
                       THEN LexErr(rest, Msg.notsym \o Append(tok, ch))
                       ELSE LexLoop(syms, "ParseSymbol", Append(tok, ch), nx)
                  [] st = "ParseId" ->
                       IF ch \in AsciiAlnum
                       THEN LexLoop(syms, st, Append(tok, ch), nx)
                       ELSE LexFinish(st, tok, rest)
                  [] st = "ParseNum" ->
                       IF ch \in AsciiDigit \/ ch = "."
                       THEN LexLoop(syms, st, Append(tok, ch), nx)
                       ELSE LexFinish(st, tok, rest)
                  [] st = "ParseWS" -> LexFinish(st, tok, rest)
                  [] st = "ParseSymbol" ->
                       IF ~is_sym_start(syms, Append(tok, ch))
                       THEN LexFinish(st, tok, rest)
                       ELSE LexLoop(syms, st, Append(tok, ch), nx)
                  [] st = "ParseStr" ->
                       IF ch = "'" THEN LexFinish(st, tok, nx)
                       ELSE LexLoop(syms, st, Append(tok, ch), nx)
    IN  LexLoop(symtab, "ParseStart", <<>>, src)

\* Lexer::next_token
next_token(symtab, src) ==
    LET RECURSIVE LexLoop(_, _, _, _)
        \* the end: the token for the state the loop stopped in
        LexFinish(st, tok, rest) ==
            CASE st = "ParseNum" ->
                    IF ParseF64(tok).ok
                    THEN LexOk(Tok("Num", [int |-> ParseF64(tok).int,
                                       frac |-> ParseF64(tok).frac]), rest)
                    ELSE LexErr(rest, Msg.float)
              [] st = "ParseStart" -> LexOk(Tok("End", <<>>), rest)
              [] st = "ParseWS" -> LexOk(Tok("WS", <<>>), rest)
              [] st = "ParseId" -> LexOk(Tok("Id", tok), rest)
              [] st = "ParseSymbol" -> LexOk(Tok("Symbol", tok), rest)
              [] st = "ParseStr" -> LexOk(Tok("Str", tok), rest)
        \* the while loop, in state st with tok accumulated
        LexLoop(syms, st, tok, rest) ==
            IF rest = <<>> THEN LexFinish(st, tok, rest)
            ELSE
            LET ch == Head(rest)
                nx == Tail(rest)
            IN  CASE st = "ParseStart" ->
                       IF ch \in AsciiWs THEN LexLoop(syms, "ParseWS", tok, nx)
                       ELSE IF ch \in AsciiAlpha
                       THEN LexLoop(syms, "ParseId", Append(tok, ch), nx)
                       ELSE IF ch \in AsciiDigit
                       THEN LexLoop(syms, "ParseNum", Append(tok, ch), nx)
                       ELSE IF ch = "'" THEN LexLoop(syms, "ParseStr", tok, nx)
                       ELSE IF ch = "."
                       THEN IF nx # <<>> /\ Head(nx) \in AsciiDigit
                            THEN LexLoop(syms, "ParseNum", Append(tok, ch), nx)
                            ELSE IF ~is_sym_start(syms, Append(tok, ch))
                            THEN LexErr(nx, Msg.notsym \o Append(tok, ch))
                            ELSE LexLoop(syms, "ParseSymbol", Append(tok, ch), nx)
                       ELSE IF ~is_sym_start(syms, Append(tok, ch))
                       THEN LexErr(rest, Msg.notsym \o Append(tok, ch))
                       ELSE LexLoop(syms, "ParseSymbol", Append(tok, ch), nx)
                  [] st = "ParseId" ->
                       IF ch \in AsciiAlnum
                       THEN LexLoop(syms, st, Append(tok, ch), nx)
                       ELSE LexFinish(st, tok, rest)
                  [] st = "ParseNum" ->
                       IF ch \in AsciiDigit \/ ch = "."
                       THEN LexLoop(syms, st, Append(tok, ch), nx)
                       ELSE LexFinish(st, tok, rest)
                  [] st = "ParseWS" ->
                       IF ch \in AsciiWs THEN LexLoop(syms, st, tok, nx)
                       ELSE LexFinish(st, tok, rest)
                  [] st = "ParseSymbol" ->
                       IF ~is_sym_start(syms, Append(tok, ch))
                       THEN LexFinish(st, tok, rest)
                       ELSE LexLoop(syms, st, Append(tok, ch), nx)
                  [] st = "ParseStr" ->
                       IF ch = "'" THEN LexFinish(st, tok, nx)
                       ELSE LexLoop(syms, st, Append(tok, ch), nx)
    IN  LexLoop(symtab, "ParseStart", <<>>, src)


(***************************************************************************)
(* The assembler: struct MProgram of mparse/src/lib.rs, generic in the     *)
(* instruction set.  Three instruction sets are modelled: "meta", the      *)
(* MInstr of meta/src/lib.rs; "test", the MInstr of the tests of mparse;   *)
(* and "avm", the MInstr of valgol1m/src/lib.rs, whose MProgram is a copy  *)
(* of this one with the ParseableInstr functions written in place.         *)
(* A program value is a record of the fields of MProgram.                  *)
(***************************************************************************)
\* the text of each mnemonic, by the name of the variant it assembles to
Mnemonic ==
    [TST |-> <<"T", "S", "T">>,
     ID |-> <<"I", "D">>,
     NUM |-> <<"N", "U", "M">>,
     SR |-> <<"S", "R">>,
     CLL |-> <<"C", "L", "L">>,
     R |-> <<"R">>,
     SET |-> <<"S", "E", "T">>,
     B |-> <<"B">>,
     BT |-> <<"B", "T">>,
     BF |-> <<"B", "F">>,
     BE |-> <<"B", "E">>,
     CL |-> <<"C", "L">>,
     CI |-> <<"C", "I">>,
     GN1 |-> <<"G", "N", "1">>,
     GN2 |-> <<"G", "N", "2">>,
     LB |-> <<"L", "B">>,
     OUT |-> <<"O", "U", "T">>,
     ADR |-> <<"A", "D", "R">>,
     LDL |-> <<"L", "D", "L">>,
     ST |-> <<"S", "T">>,
     LD |-> <<"L", "D">>,
     EDT |-> <<"E", "D", "T">>,
     HLT |-> <<"H", "L", "T">>,
     BFP |-> <<"B", "F", "P">>,
     BTP |-> <<"B", "T", "P">>,
     EQU |-> <<"E", "Q", "U">>,
     ADD |-> <<"A", "D", "D">>,
     MLT |-> <<"M", "L", "T">>,
     SUB |-> <<"S", "U", "B">>,
     PNT |-> <<"P", "N", "T">>]

\* the texts "BLK" and "END"
BLK == <<"B", "L", "K">>
END == <<"E", "N", "D">>

\* MInstr::Undef
Undef == [op |-> "Undef", arg |-> <<>>, val |-> 0]

\* the variant named v with argument arg; val is the resolved target or
\* address, 0 until resolve
Instr(v, arg) == [op |-> v, arg |-> arg, val |-> 0]

\* the variant among vs whose mnemonic is ins, Undef if there is none
Variant(vs, ins, arg) ==
    IF \E v \in vs : Mnemonic[v] = ins
    THEN Instr(CHOOSE v \in vs : Mnemonic[v] = ins, arg)
    ELSE Undef

\* ACCEPT_BLK with a slip: true for every instruction set
ACCEPT_BLK_all(D) == TRUE

\* ACCEPT_BLK with a slip: only the instruction set of the tests accepts BLK
ACCEPT_BLK_test(D) == D = "test"

\* ParseableInstr::ACCEPT_BLK
ACCEPT_BLK(D) == D \in {"test", "avm"}

\* ParseableInstr::with_label
with_label(D, ins, label) ==
    CASE D = "meta" -> Variant({"CLL", "B", "BT", "BF", "ADR"}, ins, label)
      [] D = "avm" -> Variant({"B", "ST", "LD", "BTP", "BFP"}, ins, label)
      [] OTHER -> Variant({"B", "ST", "LD"}, ins, label)

\* ParseableInstr::with_num
with_num(D, ins, n) ==
    IF D = "meta" THEN Undef ELSE Variant({"LDL"}, ins, n)

\* ParseableInstr::with_string
with_string(D, ins, str) ==
    IF D = "meta" THEN Variant({"TST", "CL"}, ins, str)
    ELSE Variant({"EDT"}, ins, str)

\* ParseableInstr::with_noarg
with_noarg(D, ins) ==
    CASE D = "meta" ->
            Variant({"ID", "NUM", "SR", "R", "SET", "BE", "CI", "GN1", "GN2",
                     "LB", "OUT"}, ins, <<>>)
      [] D = "avm" ->
            Variant({"EQU", "ADD", "SUB", "MLT", "PNT", "HLT"}, ins, <<>>)
      [] OTHER -> Variant({"HLT"}, ins, <<>>)

\* ParseableInstr::aaa_of: "IC", "Mem" or "None"
aaa_of(D, instr) ==
    IF D = "meta"
    THEN IF instr.op \in {"ADR", "B", "BT", "BF", "CLL"} THEN "IC" ELSE "None"
    ELSE IF instr.op \in {"ST", "LD"} THEN "Mem"
    ELSE IF instr.op \in {"B", "BFP", "BTP"} THEN "IC" ELSE "None"

\* HashMap::insert
Put(f, k, v) == [x \in DOMAIN f \cup {k} |-> IF x = k THEN v ELSE f[x]]

\* MProgram::new; st is "run" while lines are assembled, "end" after the
\* loop, "ok" / "err" / "panic" for what parse returned, and msg the
\* message of the error returned
pnew ==
    [instrs |-> <<>>, labels |-> <<>>, ic |-> <<>>, addr |-> 0, st |-> "run",
     msg |-> <<>>]

\* return Err(From::from(msg))
Fail(p, msg) == [p EXCEPT !.st = "err", !.msg = msg]

\* format!("{:?}", tok) of a Num or Str token (a number in positional
\* notation, a string without characters that are escaped)
Debug(tok) ==
    CASE tok.k = "Num" ->
            ((<<"N", "u", "m", "(">> \o Decimal(tok.v.int)) \o <<".">>)
            \o (IF tok.v.frac = <<>> THEN <<"0">> ELSE tok.v.frac)
            \o <<")">>
      [] tok.k = "Str" ->
            (<<"S", "t", "r", "(", "\"">> \o tok.v) \o <<"\"", ")">>
      [] tok.k = "Id" ->
            (<<"I", "d", "(", "\"">> \o tok.v) \o <<"\"", ")">>
      [] tok.k = "Symbol" ->
            (<<"S", "y", "m", "b", "o", "l", "(", "\"">> \o tok.v)
            \o <<"\"", ")">>
      [] tok.k = "WS" -> <<"W", "S">>
      [] OTHER -> <<"E", "n", "d">>

\* the symbol table parse gives the lexer: &["#"]
AsmSyms == { <<"#">> }

\* str::trim_end
RECURSIVE TrimEnd(_)
TrimEnd(s) ==
    IF s # <<>> /\ s[Len(s)] \in UniWs
    THEN TrimEnd(SubSeq(s, 1, Len(s) - 1)) ELSE s

\* MProgram::add_label
add_label(p, label) ==
    [p EXCEPT !.labels = Put(p.labels, label, p.addr),
              !.ic = Put(p.ic, p.addr, Len(p.instrs))]

\* the end of add_instr with a slip: addr advances by 2 whatever inc is
Emit_inc2(p, instr, inc, line) ==
    IF instr.op = "Undef" THEN Fail(p, Msg.instr \o line)
    ELSE [p EXCEPT !.instrs = Append(p.instrs, instr),
                   !.addr = p.addr + 2]

\* the end of add_instr: the instruction is pushed and addr advanced by inc
\* (addr is a u32; the programs assembled here keep it far below 2^32, which
\* the model checker's integers cannot hold)
Emit(p, instr, inc, line) ==
    IF instr.op = "Undef" THEN Fail(p, Msg.instr \o line)
    ELSE [p EXCEPT !.instrs = Append(p.instrs, instr),
                   !.addr = p.addr + inc]

\* add_instr from the match on the argument token: ins is the mnemonic and
\* t the result of next_token for the argument
Operand(D, p, ins, t, line) ==
    IF ~t.ok THEN Fail(p, t.msg)
    ELSE
    CASE t.tok.k = "WS" -> [p EXCEPT !.st = "panic"]
      [] t.tok.k = "Id" -> Emit(p, with_label(D, ins, t.tok.v), 2, line)
      [] t.tok.k = "Num" ->
            IF ins = BLK
            THEN IF ~ACCEPT_BLK(D) THEN Fail(p, Msg.blkuse)
                 ELSE IF t.tok.v.frac # <<>> \/ t.tok.v.int < 0
                 THEN Fail(p, Msg.blkinv)
                 ELSE [p EXCEPT !.addr = p.addr + t.tok.v.int]
            ELSE Emit(p, with_num(D, ins, t.tok.v), 2, line)
      [] t.tok.k = "Str" -> Emit(p, with_string(D, ins, t.tok.v), 2, line)
      [] t.tok.k = "Symbol" /\ t.tok.v # <<"#">> -> Fail(p, Msg.line \o line)
      [] OTHER ->
            IF ins = END THEN [p EXCEPT !.st = "end"]
            ELSE Emit(p, with_noarg(D, ins), 1, line)

\* MProgram::add_instr; rest is the line after its leading whitespace token
add_instr(D, p, rest, line) ==
    LET t1 == next_token(AsmSyms, rest)
    IN  IF ~t1.ok THEN Fail(p, t1.msg)
        ELSE
        CASE t1.tok.k = "End" -> [p EXCEPT !.st = "end"]
          [] t1.tok.k = "Symbol" /\ t1.tok.v = <<"#">> -> p
          [] t1.tok.k = "Id" ->
                LET t2 == next_token(AsmSyms, t1.rest)
                    t3 == IF t2.ok /\ t2.tok.k = "WS"
                          THEN next_token(AsmSyms, t2.rest) ELSE t2
                IN  Operand(D, p, t1.tok.v, t3, line)
          [] OTHER -> Fail(p, Msg.unexpected \o Debug(t1.tok))

\* one iteration of the loop of parse with a slip: what follows a label on
\* its line is assembled as an instruction
parse_line_rest(D, p, rawline) ==
    LET line == TrimEnd(rawline)
        t == next_token(AsmSyms, line)
    IN  IF line = <<>> THEN p
        ELSE IF ~t.ok THEN Fail(p, t.msg)
        ELSE
        CASE t.tok.k = "Id" ->
                add_instr(D, add_label(p, t.tok.v), t.rest, line)
          [] t.tok.k = "WS" -> add_instr(D, p, t.rest, line)
          [] t.tok.k = "Symbol" /\ t.tok.v = <<"#">> -> p
          [] OTHER -> Fail(p, Msg.unexpected \o Debug(t.tok))

\* one iteration of the for loop of MProgram::parse
parse_line(D, p, rawline) ==
    LET line == TrimEnd(rawline)
        t == next_token(AsmSyms, line)
    IN  IF line = <<>> THEN p
        ELSE IF ~t.ok THEN Fail(p, t.msg)
        ELSE
        CASE t.tok.k = "Id" -> add_label(p, t.tok.v)
          [] t.tok.k = "WS" -> add_instr(D, p, t.rest, line)
          [] t.tok.k = "Symbol" /\ t.tok.v = <<"#">> -> p
          [] OTHER -> Fail(p, Msg.unexpected \o Debug(t.tok))

\* resolve_aaa: Ok with the instruction rewritten, or Err
resolve_aaa(instr, labels) ==
    IF instr.arg \in DOMAIN labels
    THEN [ok |-> TRUE, instr |-> [instr EXCEPT !.val = labels[instr.arg]],
          msg |-> <<>>]
    ELSE [ok |-> FALSE, instr |-> instr, msg |-> Msg.unknown \o instr.arg]

\* resolve_ic with a slip: the index is not compared with pgm_len
resolve_ic_nolen(instr, labels, ic, pgm_len) ==
    IF instr.arg \notin DOMAIN labels
    THEN [ok |-> FALSE, instr |-> instr, msg |-> Msg.unknown \o instr.arg]
    ELSE [ok |-> TRUE,
          instr |-> [instr EXCEPT !.val = ic[labels[instr.arg]]],
          msg |-> <<>>]

\* resolve_ic with a slip: the address is stored, not the instruction index
resolve_ic_addr(instr, labels, ic, pgm_len) ==
    IF instr.arg \notin DOMAIN labels
    THEN [ok |-> FALSE, instr |-> instr, msg |-> Msg.unknown \o instr.arg]
    ELSE IF ic[labels[instr.arg]] >= pgm_len
    THEN [ok |-> FALSE, instr |-> instr, msg |-> Msg.counter]
    ELSE [ok |-> TRUE,
          instr |-> [instr EXCEPT !.val = labels[instr.arg]],
          msg |-> <<>>]

\* resolve_ic: Ok with the instruction rewritten, or Err
resolve_ic(instr, labels, ic, pgm_len) ==
    IF instr.arg \notin DOMAIN labels
    THEN [ok |-> FALSE, instr |-> instr, msg |-> Msg.unknown \o instr.arg]
    ELSE IF labels[instr.arg] \notin DOMAIN ic
    THEN [ok |-> FALSE, instr |-> instr,
          msg |-> (Msg.unmatched \o Decimal(labels[instr.arg])) \o Msg.foric]
    ELSE IF ic[labels[instr.arg]] >= pgm_len
    THEN [ok |-> FALSE, instr |-> instr,
          msg |-> (((Msg.counter \o Decimal(ic[labels[instr.arg]]))
                    \o Msg.for) \o instr.arg) \o Msg.without]
    ELSE [ok |-> TRUE,
          instr |-> [instr EXCEPT !.val = ic[labels[instr.arg]]],
          msg |-> <<>>]

\* resolve with a slip: the loop goes on after an error and the error
\* returned is the last one
resolve_lasterr(D, p) ==
    LET
        \* the body of the loop for the instruction at index i (from 1)
        Resolved(i) ==
            CASE aaa_of(D, p.instrs[i]) = "Mem" -> resolve_aaa(p.instrs[i], p.labels)
              [] aaa_of(D, p.instrs[i]) = "IC" ->
                    resolve_ic(p.instrs[i], p.labels, p.ic, Len(p.instrs))
              [] OTHER -> [ok |-> TRUE, instr |-> p.instrs[i], msg |-> <<>>]
        bad == {i \in 1..Len(p.instrs) : ~Resolved(i).ok}
        last_bad == IF bad = {} THEN 0
                    ELSE CHOOSE i \in bad : \A j \in bad : j <= i
    IN  [p EXCEPT !.instrs = [i \in 1..Len(p.instrs) |->
                                 Resolved(i).instr],
                  !.st = IF bad = {} THEN "ok" ELSE "err",
                  !.msg = IF bad = {} THEN <<>>
                          ELSE Resolved(last_bad).msg]

\* MProgram::resolve: the loop stops at the first instruction that fails,
\* the instructions before it stay rewritten
resolve(D, p) ==
    LET
        \* the body of the loop for the instruction at index i (from 1)
        Resolved(i) ==
            CASE aaa_of(D, p.instrs[i]) = "Mem" -> resolve_aaa(p.instrs[i], p.labels)
              [] aaa_of(D, p.instrs[i]) = "IC" ->
                    resolve_ic(p.instrs[i], p.labels, p.ic, Len(p.instrs))
              [] OTHER -> [ok |-> TRUE, instr |-> p.instrs[i], msg |-> <<>>]
        bad == {i \in 1..Len(p.instrs) : ~Resolved(i).ok}
        first == IF bad = {} THEN Len(p.instrs) + 1
                 ELSE CHOOSE i \in bad : \A j \in bad : i <= j
    IN  [p EXCEPT !.instrs = [i \in 1..Len(p.instrs) |->
                                 IF i < first THEN Resolved(i).instr
                                 ELSE p.instrs[i]],
                  !.st = IF bad = {} THEN "ok" ELSE "err",
                  !.msg = IF bad = {} THEN <<>>
                          ELSE Resolved(first).msg]

\* F(v), with v computed once: let x = v; F(x)
Bind(v, F(_)) == CHOOSE y \in {F(x) : x \in {v}} : TRUE

\* MProgram::parse of a text given as its lines
parse(D, lines) ==
    LET RECURSIVE parse_lines(_, _)
        \* the loop over the lines
        parse_lines(q0, ls) ==
            Bind(q0, LAMBDA q :
            IF q.st # "run" \/ ls = <<>> THEN q
            ELSE parse_lines(parse_line(D, q, Head(ls)), Tail(ls)))
        p == parse_lines(pnew, lines)
    IN  IF p.st \in {"run", "end"} THEN resolve(D, p) ELSE p


(***************************************************************************)
(* The assembler built into valgol1m: struct MProgram of                   *)
(* valgol1m/src/lib.rs, which has the instruction set of the AVM written   *)
(* into its functions.  A program value is the record of above.            *)
(***************************************************************************)
\* MInstr::resolve_aaa for ST and LD, MInstr::resolve_ic for B, BFP and BTP
\* (the arms "unknown aaa instruction" are not reached from resolve)
avm_resolve_instr(instr, labels, ic, pgm_len) ==
    IF instr.arg \notin DOMAIN labels
    THEN [ok |-> FALSE, instr |-> instr, msg |-> Msg.unknown \o instr.arg]
    ELSE IF instr.op \in {"ST", "LD"}
    THEN [ok |-> TRUE, instr |-> [instr EXCEPT !.val = labels[instr.arg]],
          msg |-> <<>>]
    ELSE IF labels[instr.arg] \notin DOMAIN ic
    THEN [ok |-> FALSE, instr |-> instr,
          msg |-> (Msg.unmatched \o Decimal(labels[instr.arg])) \o Msg.foric]
    ELSE IF ic[labels[instr.arg]] >= pgm_len
    THEN [ok |-> FALSE, instr |-> instr,
          msg |-> (((Msg.counter \o Decimal(ic[labels[instr.arg]]))
                    \o Msg.for) \o instr.arg) \o Msg.without]
    ELSE [ok |-> TRUE,
          instr |-> [instr EXCEPT !.val = ic[labels[instr.arg]]],
          msg |-> <<>>]

\* MProgram::resolve of valgol1m: the loop stops at the first instruction
\* that fails
avm_resolve(p) ==
    LET Resolved(i) ==
            IF p.instrs[i].op \in {"ST", "LD", "B", "BFP", "BTP"}
            THEN avm_resolve_instr(p.instrs[i], p.labels, p.ic, Len(p.instrs))
            ELSE [ok |-> TRUE, instr |-> p.instrs[i], msg |-> <<>>]
        bad == {i \in 1..Len(p.instrs) : ~Resolved(i).ok}
        first == IF bad = {} THEN Len(p.instrs) + 1
                 ELSE CHOOSE i \in bad : \A j \in bad : i <= j
    IN  [p EXCEPT !.instrs = [i \in 1..Len(p.instrs) |->
                                 IF i < first THEN Resolved(i).instr
                                 ELSE p.instrs[i]],
                  !.st = IF bad = {} THEN "ok" ELSE "err",
                  !.msg = IF bad = {} THEN <<>>
                          ELSE Resolved(first).msg]

\* MProgram::add_instr of valgol1m; rest is the line after its leading
\* whitespace token
avm_add_instr(p, rest, line) ==
    LET \* the end of the function, for the instruction the match gave
        Push(instr, inc) ==
            IF instr.op = "Undef" THEN Fail(p, Msg.instr \o line)
            ELSE [p EXCEPT !.instrs = Append(p.instrs, instr),
                           !.addr = p.addr + inc]
        \* the match on the argument token t for the mnemonic ins
        Arm(ins, t) ==
            IF ~t.ok THEN Fail(p, t.msg)
            ELSE
            CASE t.tok.k = "WS" -> [p EXCEPT !.st = "panic"]
              [] t.tok.k = "Id" ->
                    Push(Variant({"B", "ST", "LD", "BTP", "BFP"}, ins, t.tok.v), 2)
              [] t.tok.k = "Num" ->
                    IF ins = BLK
                    THEN IF t.tok.v.frac # <<>> \/ t.tok.v.int < 0
                         THEN Fail(p, Msg.blkinv)
                         ELSE [p EXCEPT !.addr = p.addr + t.tok.v.int]
                    ELSE Push(Variant({"LDL"}, ins, t.tok.v), 2)
              [] t.tok.k = "Str" -> Push(Variant({"EDT"}, ins, t.tok.v), 2)
              [] t.tok.k = "Symbol" /\ t.tok.v # <<"#">> ->
                    Fail(p, Msg.line \o line)
              [] OTHER ->
                    IF ins = END THEN [p EXCEPT !.st = "end"]
                    ELSE Push(Variant({"EQU", "ADD", "SUB", "MLT", "PNT", "HLT"},
                                      ins, <<>>), 1)
    IN  Bind(next_token(AsmSyms, rest), LAMBDA t1 :
        IF ~t1.ok THEN Fail(p, t1.msg)
        ELSE IF t1.tok.k = "End" THEN [p EXCEPT !.st = "end"]
        ELSE IF t1.tok.k = "Symbol" /\ t1.tok.v = <<"#">> THEN p
        ELSE IF t1.tok.k # "Id" THEN Fail(p, Msg.unexpected \o Debug(t1.tok))
        ELSE Bind(next_token(AsmSyms, t1.rest), LAMBDA t2 :
             IF t2.ok /\ t2.tok.k = "WS"
             THEN Arm(t1.tok.v, next_token(AsmSyms, t2.rest))
             ELSE Arm(t1.tok.v, t2)))

\* one iteration of the for loop of MProgram::parse of valgol1m on the
\* trimmed line, add_label included; t is the first token of the line
avm_parse_line(q, line, t) ==
    IF line = <<>> THEN q
    ELSE IF ~t.ok THEN Fail(q, t.msg)
    ELSE
    CASE t.tok.k = "Id" ->
            [q EXCEPT !.labels = Put(q.labels, t.tok.v, q.addr),
                      !.ic = Put(q.ic, q.addr, Len(q.instrs))]
      [] t.tok.k = "WS" -> avm_add_instr(q, t.rest, line)
      [] t.tok.k = "Symbol" /\ t.tok.v = <<"#">> -> q
      [] OTHER -> Fail(q, Msg.unexpected \o Debug(t.tok))

\* MProgram::parse of valgol1m of a text given as its lines
avm_parse(lines) ==
    LET RECURSIVE Lines(_, _)
        \* the loop over the lines
        Lines(q0, ls) ==
            Bind(q0, LAMBDA q :
            IF q.st # "run" \/ ls = <<>> THEN q
            ELSE Lines(avm_parse_line(q, TrimEnd(Head(ls)),
                                      next_token(AsmSyms, TrimEnd(Head(ls)))),
                       Tail(ls)))
    IN  Bind(Lines(pnew, lines), LAMBDA p :
        IF p.st \in {"run", "end"} THEN avm_resolve(p) ELSE p)

(***************************************************************************)
(* The bootstrap translator: metabstrp/src/main.rs.  Each recognizer takes *)
(* a machine value and yields the machine value it leaves and its result:  *)
(* "Recognized", "Unrecognized", "Err" for Err(SynError::Unexpected), and  *)
(* "Panic" when the machine or the recognizer has panicked (the machine    *)
(* value is then of no account).                                           *)
(***************************************************************************)
\* a value of MResult with the machine it was computed on
Ret(m, res) == [m |-> m, res |-> IF m.trap THEN "Panic" ELSE res]

\* the result leaves the function at once: what ? does to an Err
Leaves(x) == x.res \in {"Err", "Panic"}

\* with_cll after its m.cll(lvl), which its caller applies: res is the
\* result of recog on the machine that call leaves
with_cll(lvl, res) ==
    Bind(res, LAMBDA x :
        IF x.res = "Panic" THEN x
        ELSE IF r_ric(x.m) # lvl
        THEN Ret([x.m EXCEPT !.trap = TRUE], "Panic")
        ELSE Ret(r(x.m), x.res))

\* out1
out1(m) ==
    with_cll(5,
        Bind(tst(cll(m, 5), <<"*", "1">>), LAMBDA a :
        IF a.sw THEN Ret(out(cl(a, <<"G", "N", "1">>)), "Recognized")
        ELSE Bind(tst(a, <<"*", "2">>), LAMBDA b :
        IF b.sw THEN Ret(out(cl(b, <<"G", "N", "2">>)), "Recognized")
        ELSE Bind(tst(b, <<"*">>), LAMBDA c :
        IF c.sw THEN Ret(out(cl(c, <<"C", "I">>)), "Recognized")
        ELSE Bind(sr(c), LAMBDA d :
        IF d.sw THEN Ret(out(ci(cl(d, <<"C", "L", " ">>))), "Recognized")
        ELSE Ret(d, "Unrecognized"))))))

\* output (the function of metabstrp; output alone names the field of M)
output_fn(m) ==
    LET RECURSIVE out1s(_)
        \* while let Recognized = out1(m)? {}
        out1s(m1) ==
            Bind(out1(m1), LAMBDA x :
            IF x.res = "Recognized" THEN out1s(x.m) ELSE x)
    IN  with_cll(4,
        Bind(tst(cll(m, 4), <<".", "O", "U", "T">>), LAMBDA a :
        IF a.sw
        THEN Bind(tst(a, <<"(">>), LAMBDA b :
             IF be(b) = "Err" THEN Ret(b, "Err")
             ELSE Bind(out1s(b), LAMBDA x :
             IF Leaves(x) THEN x
             ELSE Bind(tst(x.m, <<")">>), LAMBDA c :
             IF be(c) = "Err" THEN Ret(c, "Err")
             ELSE Ret(out(cl(c, <<"O", "U", "T">>)), "Recognized"))))
        ELSE Bind(tst(a, <<".", "L", "A", "B", "E", "L">>), LAMBDA e :
        IF e.sw
        THEN Bind(out1(out(cl(e, <<"L", "B">>))), LAMBDA y :
             IF Leaves(y) THEN y
             ELSE IF y.res = "Unrecognized" THEN Ret(y.m, "Err")
             ELSE Ret(out(cl(y.m, <<"O", "U", "T">>)), "Recognized"))
        ELSE Ret(e, "Unrecognized"))))

RECURSIVE ex1_nobt(_), ex1(_), ex2(_), ex3(_)

\* ex3
ex3(m) ==
    with_cll(3,
        Bind(id(cll(m, 3)), LAMBDA a :
        IF a.sw THEN Ret(out(ci(cl(a, <<"C", "L", "L">>))), "Recognized")
        ELSE Bind(sr(a), LAMBDA b :
        IF b.sw THEN Ret(out(ci(cl(b, <<"T", "S", "T", " ">>))), "Recognized")
        ELSE Bind(tst(b, <<".", "I", "D">>), LAMBDA c :
        IF c.sw THEN Ret(out(cl(c, <<"I", "D">>)), "Recognized")
        ELSE Bind(tst(c, <<".", "N", "U", "M", "B", "E", "R">>), LAMBDA d :
        IF d.sw THEN Ret(out(cl(d, <<"N", "U", "M">>)), "Recognized")
        ELSE Bind(tst(d, <<".", "S", "T", "R", "I", "N", "G">>), LAMBDA e :
        IF e.sw THEN Ret(out(cl(e, <<"S", "R">>)), "Recognized")
        ELSE Bind(tst(e, <<"(">>), LAMBDA f :
        IF f.sw
        THEN Bind(ex1(f), LAMBDA x :
             IF Leaves(x) THEN x
             ELSE IF x.res = "Unrecognized" THEN Ret(x.m, "Err")
             ELSE Bind(tst(x.m, <<")">>), LAMBDA g :
             IF be(g) = "Err" THEN Ret(g, "Err")
             ELSE Ret(g, "Recognized")))
        ELSE Bind(tst(f, <<".", "E", "M", "P", "T", "Y">>), LAMBDA h :
        IF h.sw THEN Ret(out(cl(h, <<"S", "E", "T">>)), "Recognized")
        ELSE Bind(tst(h, <<"$">>), LAMBDA i :
        IF i.sw
        THEN Bind(ex3(out(gn1(lb(i)))), LAMBDA y :
             IF Leaves(y) THEN y
             ELSE IF y.res = "Unrecognized" THEN Ret(y.m, "Err")
             ELSE Ret(out(cl(out(gn1(cl(y.m, <<"B", "T", " ">>))), <<"S", "E", "T">>)),
                      "Recognized"))
        ELSE Ret(i, "Unrecognized"))))))))))

\* ex2
ex2(m) ==
    LET RECURSIVE rest(_)
        \* the loop: "Break" stands for its break
        rest(m1) ==
            Bind(ex3(m1), LAMBDA x :
            IF Leaves(x) THEN x
            ELSE IF x.res = "Recognized" THEN rest(out(cl(x.m, <<"B", "E">>)))
            ELSE Bind(output_fn(x.m), LAMBDA y :
            IF Leaves(y) THEN y
            ELSE IF y.res = "Unrecognized" THEN Ret(y.m, "Break")
            ELSE rest(y.m)))
        \* the loop and what follows it
        tail(m1) ==
            Bind(rest(m1), LAMBDA z :
            IF Leaves(z) THEN z
            ELSE Ret(out(gn1(lb(z.m))), "Recognized"))
    IN  with_cll(2,
        Bind(ex3(cll(m, 2)), LAMBDA x :
        IF Leaves(x) THEN x
        ELSE IF x.res = "Recognized" THEN tail(out(gn1(cl(x.m, <<"B", "F", " ">>))))
        ELSE Bind(output_fn(x.m), LAMBDA y :
        IF Leaves(y) THEN y
        ELSE IF y.res = "Unrecognized" THEN Ret(y.m, "Unrecognized")
        ELSE tail(y.m))))

\* ex1 with a slip: nothing is emitted at a "/"
ex1_nobt(m) ==
    LET RECURSIVE alts(_)
        alts(m1) ==
            Bind(tst(m1, <<"/">>), LAMBDA a :
            IF ~a.sw THEN Ret(a, "Break")
            ELSE Bind(ex2(a), LAMBDA y :
            IF Leaves(y) THEN y
            ELSE IF y.res = "Unrecognized" THEN Ret(y.m, "Err")
            ELSE alts(y.m)))
    IN  Bind(ex2(cll(m, 1)), LAMBDA x :
        IF Leaves(x) THEN x
        ELSE IF x.res = "Unrecognized" THEN Ret(x.m, "Unrecognized")
        ELSE Bind(alts(x.m), LAMBDA z :
        IF Leaves(z) THEN z
        ELSE Bind(out(gn1(lb(z.m))), LAMBDA m2 :
        IF r_ric(m2) # 1 THEN Ret([m2 EXCEPT !.trap = TRUE], "Panic")
        ELSE Ret(r(m2), "Recognized"))))

\* ex1 with a slip: it returns Recognized at once
ex1_skip(m) == Ret(m, "Recognized")

\* ex1: the returns before the last statement leave the frame of cll(1)
\* on the stack
ex1(m) ==
    LET RECURSIVE alts(_)
        \* the loop: "Break" stands for its break
        alts(m1) ==
            Bind(tst(m1, <<"/">>), LAMBDA a :
            IF ~a.sw THEN Ret(a, "Break")
            ELSE Bind(ex2(out(gn1(cl(a, <<"B", "T", " ">>)))), LAMBDA y :
            IF Leaves(y) THEN y
            ELSE IF y.res = "Unrecognized" THEN Ret(y.m, "Err")
            ELSE alts(y.m)))
    IN  Bind(ex2(cll(m, 1)), LAMBDA x :
        IF Leaves(x) THEN x
        ELSE IF x.res = "Unrecognized" THEN Ret(x.m, "Unrecognized")
        ELSE Bind(alts(x.m), LAMBDA z :
        IF Leaves(z) THEN z
        ELSE Bind(out(gn1(lb(z.m))), LAMBDA m2 :
        IF r_ric(m2) # 1 THEN Ret([m2 EXCEPT !.trap = TRUE], "Panic")
        ELSE Ret(r(m2), "Recognized"))))

\* st
st(m) ==
    Bind(id(m), LAMBDA a :
    IF ~a.sw THEN Ret(a, "Unrecognized")
    ELSE Bind(tst(out(ci(lb(a))), <<"=">>), LAMBDA b :
    IF be(b) = "Err" THEN Ret(b, "Err")
    ELSE Bind(ex1(b), LAMBDA x :
    IF Leaves(x) THEN x
    ELSE IF x.res = "Unrecognized" THEN Ret(x.m, "Err")
    ELSE Bind(tst(x.m, <<";">>), LAMBDA c :
    IF be(c) = "Err" THEN Ret(c, "Err")
    ELSE Ret(out(cl(c, <<"R">>)), "Recognized")))))

\* program
program(m) ==
    LET RECURSIVE sts(_)
        \* while let Recognized = st(m)? {}
        sts(m1) ==
            Bind(st(m1), LAMBDA x :
            IF x.res = "Recognized" THEN sts(x.m) ELSE x)
    IN  Bind(tst(m, <<".", "S", "Y", "N", "T", "A", "X">>), LAMBDA a :
        IF ~a.sw THEN Ret(a, "Unrecognized")
        ELSE Bind(id(a), LAMBDA b :
        IF be(b) = "Err" THEN Ret(b, "Err")
        ELSE Bind(sts(out(ci(cl(b, <<"A", "D", "R">>)))), LAMBDA x :
        IF Leaves(x) THEN x
        ELSE Bind(tst(x.m, <<".", "E", "N", "D">>), LAMBDA d :
        IF be(d) = "Err" THEN Ret(d, "Err")
        ELSE Ret(out(cl(d, <<"E", "N", "D">>)), "Recognized")))))

(***************************************************************************)
(* The arithmetic machine: struct M of valgol1m/src/lib.rs.  An f64 is     *)
(* modelled exactly where the machine computes exactly: a value is         *)
(* n / 2^e with n odd or e = 0 (whole numbers, halves, quarters, ..), or   *)
(* Huge, which stands for a value of 2^64 or more such as the operand of   *)
(* LDL 18446744073709551616; sums and products of Huge are not modelled.   *)
(* A machine value has the fields of M, the lines printed so far, and      *)
(* trap, TRUE once an operation has panicked.                              *)
(***************************************************************************)
PRINT_AREA_SIZE == 100

\* b to the power k
RECURSIVE Pow(_, _)
Pow(b, k) == IF k = 0 THEN 1 ELSE b * Pow(b, k - 1)

\* the f64 n / 2^e
RECURSIVE Dy(_, _)
Dy(n, e) == IF e > 0 /\ n % 2 = 0 THEN Dy(n \div 2, e - 1) ELSE [n |-> n, e |-> e]

Huge == [n |-> 1, e |-> -64]

\* the f64 a Num token carries: str::parse::<f64> gives the nearest f64,
\* which is the number written when that is a multiple of a power of 1/2
\* (the only literals used here)
F64(v) ==
    LET k == Len(v.frac)
    IN  Dy(v.int * Pow(2, k) + DigitsVal(v.frac) \div Pow(5, k), k)

\* a + b, a - b (sign = -1) and a * b of f64 where the result is exact
Sum(a, sign, b) ==
    LET e == IF a.e > b.e THEN a.e ELSE b.e
    IN  Dy(a.n * Pow(2, e - a.e) + sign * b.n * Pow(2, e - b.e), e)
Prod(a, b) == Dy(a.n * b.n, a.e + b.e)

\* f64::round: to the nearest whole number, halves away from zero
Round(a) ==
    LET mag == IF a.n < 0 THEN -a.n ELSE a.n
        whole == (2 * mag + Pow(2, a.e)) \div Pow(2, a.e + 1)
    IN  IF a.n < 0 THEN -whole ELSE whole

\* M::new of valgol1m
avm_new ==
    [mem |-> <<>>, stack |-> <<>>, print_area |-> <<>>, printed |-> <<>>,
     trap |-> FALSE]

\* M::push
push(m, u) == [m EXCEPT !.stack = Append(m.stack, u)]

\* M::pop, the machine after it (panic: "machine stack underflow") and the
\* value it returns
pop(m) ==
    IF m.stack = <<>> THEN [m EXCEPT !.trap = TRUE]
    ELSE [m EXCEPT !.stack = SubSeq(m.stack, 1, Len(m.stack) - 1)]
Top(m) == m.stack[Len(m.stack)]

\* let a = self.pop(); let b = self.pop(); self.push(v), where v is
\* computed from a = Top(m) and b = Top(pop(m))
Binary(m, v) ==
    IF Len(m.stack) < 2 THEN [m EXCEPT !.trap = TRUE]
    ELSE push(pop(pop(m)), v)

\* M::ld
ld(m, loc) == push(m, IF loc \in DOMAIN m.mem THEN m.mem[loc] ELSE Dy(0, 0))

\* M::st of valgol1m
avm_st(m, loc) ==
    IF m.stack = <<>> THEN pop(m)
    ELSE [pop(m) EXCEPT !.mem = Put(m.mem, loc, Top(m))]

\* M::add
add(m) == Binary(m, Sum(Top(m), 1, Top(pop(m))))

\* M::mlt
mlt(m) == Binary(m, Prod(Top(m), Top(pop(m))))

\* equ with a slip: 1.0 is pushed when the values differ
equ_inverted(m) ==
    Binary(m, IF Sum(Top(m), -1, Top(pop(m))).n # 0
              THEN Dy(1, 0) ELSE Dy(0, 0))

\* M::equ: (a - b).abs() < EPS with EPS = 1 / 1000000
equ(m) ==
    Binary(m, LET d == Sum(Top(m), -1, Top(pop(m)))
                  mag == IF d.n < 0 THEN -d.n ELSE d.n
              IN  IF mag <= (Pow(2, d.e) - 1) \div 1000000
                  THEN Dy(1, 0) ELSE Dy(0, 0))

\* M::sub
sub(m) == Binary(m, Sum(Top(m), -1, Top(pop(m))))

\* M::edt.  For Huge, `n as usize` is usize::MAX: start + sz overflows when
\* sz > 0, which panics where overflow is checked and otherwise wraps to
\* sz - 1, passes the test and panics in replace_range (start is past the
\* end of the string); with sz = 0 the sum is usize::MAX and edt returns
edt(m, s) ==
    IF m.stack = <<>> THEN pop(m)
    ELSE IF Top(m) = Huge
    THEN IF Len(s) > 0 THEN [pop(m) EXCEPT !.trap = TRUE] ELSE pop(m)
    ELSE LET n == Round(Top(m))
             sz == Len(s)
             area == IF m.print_area = <<>> THEN Spaces(PRINT_AREA_SIZE)
                     ELSE m.print_area
         IN  IF n < 0 THEN pop(m)
             ELSE IF n + sz > PRINT_AREA_SIZE THEN pop(m)
             ELSE [pop(m) EXCEPT !.print_area =
                      (SubSeq(area, 1, n) \o s)
                      \o SubSeq(area, n + sz + 1, Len(area))]

\* pnt with a slip: the print area is not truncated
pnt_notruncate(m) ==
    [m EXCEPT !.printed = Append(m.printed, TrimEnd(m.print_area))]

\* M::pnt: str::trim_end drops the blanks at the end
pnt(m) ==
    [m EXCEPT !.printed = Append(m.printed, TrimEnd(m.print_area)),
              !.print_area = <<>>]

(***************************************************************************)
(* State.                                                                  *)
(***************************************************************************)
VARIABLES
    \* the fields of struct M
    input, pos, sw, last, a_cnt, b_cnt, output, stk,
    \* TRUE once an operation of M has panicked
    trap,
    \* the operation called last, and the value it returned
    op, ret,
    \* outcome of the most recent scanning primitive: "none", "ok" or "fail"
    scan,
    \* one entry per cll that has not returned yet: its ric, the stack as it
    \* was before the call, and the labels GN1 / GN2 emitted in that frame
    frames,
    \* the labels GN1 / GN2 have emitted so far
    alloc,
    \* how far the latest operations are into the sequence LB; CL s; OUT:
    \* "lb", "lbcl", "lbclout", or "-" when they are not such a sequence
    lbcl,
    \* the MProgram being assembled or executed, and the instruction set
    \* (type parameter) it is assembled for
    pgm, dialect,
    \* the lines of the text given to parse, the number of them it has read,
    \* and the sum of the operands of the BLK lines read
    text, nlines, blks,
    \* for each label declared by a line read: the number of instructions
    \* and the address at its latest declaration
    decl,
    \* the local ic of M::execute
    ic,
    \* where run() is: "loaded" once the program and the source are read,
    \* "exec" in the loop of execute, "halted" after it, "done" after the
    \* report; "asm" while MProgram::parse runs and "parsed" after it;
    \* "api" when the operations of M are called directly
    phase,
    \* the break that ended the loop of execute: "R", "BE", or "-"
    halt,
    \* what run() has printed
    printed,
    \* what program() of the bootstrap translator returned ("-" before it
    \* has), and the alternatives of the rule the source text was made of
    res, gram,
    \* the machine of valgol1m: its fields mem, stack and print_area, the
    \* lines it has printed, and whether it has panicked
    avm,
    \* a Lexer of minilexer: the text its iterator has not consumed yet and
    \* its symbol table
    lx,
    \* the reference machine: a machine whose cll never removes blank slots,
    \* given the same calls as the machine above
    refm

mvars == <<input, pos, sw, last, a_cnt, b_cnt, output, stk, trap>>
hvars == <<op, ret, scan, frames, alloc, lbcl>>
avars ==
    <<pgm, dialect, text, nlines, blks, decl, res, gram, avm, lx, refm, refm>>
xvars == <<ic, phase, halt, printed>>
vars == <<mvars, hvars, avars, xvars>>

\* the machine value held by the state variables
M ==
    [input |-> input, pos |-> pos, sw |-> sw, last |-> last,
     a_cnt |-> a_cnt, b_cnt |-> b_cnt, output |-> output, stk |-> stk,
     trap |-> trap]

\* the state variables take the machine value n
SetM(n) ==
    /\ input' = n.input
    /\ pos' = n.pos
    /\ sw' = n.sw
    /\ last' = n.last
    /\ a_cnt' = n.a_cnt
    /\ b_cnt' = n.b_cnt
    /\ output' = n.output
    /\ stk' = n.stk
    /\ trap' = n.trap

(***************************************************************************)
(* Inputs of the operations.                                               *)
(***************************************************************************)
\* the input texts of SpecScan: all texts of up to MaxLen characters over
\* Alphabet, and source texts of the tests of meta/src/lib.rs
\* (m_num, m_num_not_accepted, m_id, m_sr_unterminated, shortened) and the
\* number 0.1.2 of the specification, which this enumeration does not reach
ScanInputs ==
    LET Alphabet == {"a", "1", ".", "'", " ", VT}
        TestInputs ==
            { <<" ", " ", "0", "0", ".", "1", "2", "0", "_">>,
              <<"0", ".", "1", ".", "2">>,
              <<" ", " ", "1", "2", ".", ".", "3", "3">>,
              <<"1", "2", ".", ".", "3", "3">>,
              <<" ", " ", "a", "b", "3", "c", "_">>,
              <<" ", " ", "'", "a", " ", "c", " ", "_">> }
    IN  UNION {[1..n -> Alphabet] : n \in 0..MaxLen} \cup TestInputs

\* number of Back markers on a stack
Depth(ss) == Cardinality({i \in 1..Len(ss) : ss[i].t = "Back"})

(***************************************************************************)
(* Operations of M, called in any order.                                   *)
(***************************************************************************)
\* the state variables hold the machine value n
IsM(n) ==
    /\ input = n.input
    /\ pos = n.pos
    /\ sw = n.sw
    /\ last = n.last
    /\ a_cnt = n.a_cnt
    /\ b_cnt = n.b_cnt
    /\ output = n.output
    /\ stk = n.stk
    /\ trap = n.trap

\* nothing has been called on the machine yet
Fresh ==
    /\ op = "new" /\ ret = FALSE /\ scan = "none"
    /\ frames = <<>> /\ alloc = {} /\ lbcl = "-"

\* no program is assembled or run: the operations of M are called directly
Direct ==
    /\ pgm = pnew /\ dialect = "meta"
    /\ text = <<>> /\ nlines = 0 /\ blks = 0 /\ decl = <<>>
    /\ res = "-" /\ gram = <<>> /\ avm = avm_new /\ lx = Lexer(<<>>, {})
    /\ refm = new(<<>>)
    /\ ic = 0 /\ phase = "api" /\ halt = "-" /\ printed = <<>>

\* let m = M::new(inp)
Init ==
    /\ \E inp \in { <<>>, <<"a", " ">> } : IsM(new(inp))
    /\ Fresh
    /\ Direct

\* bookkeeping of a scanning primitive that left the machine as n
Scanned(name, n) ==
    /\ op' = name
    /\ ret' = n.sw
    /\ scan' = IF n.sw THEN "ok" ELSE "fail"
    /\ lbcl' = "-"
    /\ UNCHANGED <<frames, alloc>>

\* m.tst(s)
Tst(s) ==
    /\ ~trap
    /\ SetM(tst(M, s))
    /\ Scanned("tst", tst(M, s))

\* m.id()
Id ==
    /\ ~trap
    /\ SetM(id(M))
    /\ Scanned("id", id(M))

\* m.num()
Num ==
    /\ ~trap
    /\ SetM(num(M))
    /\ Scanned("num", num(M))

\* m.sr()
Sr ==
    /\ ~trap
    /\ SetM(sr(M))
    /\ Scanned("sr", sr(M))

\* m.set()
Set ==
    /\ ~trap
    /\ SetM(set(M))
    /\ op' = "set" /\ ret' = TRUE
    /\ UNCHANGED <<scan, frames, alloc>>
    /\ lbcl' = "-"

\* m.be()
Be ==
    /\ ~trap
    /\ SetM(M)
    /\ op' = "be" /\ ret' = be(M)
    /\ UNCHANGED <<scan, frames, alloc>>
    /\ lbcl' = "-"

\* m.cl(s)
Cl(s) ==
    /\ ~trap
    /\ SetM(cl(M, s))
    /\ op' = "cl" /\ ret' = s
    /\ UNCHANGED <<scan, frames, alloc>>
    /\ lbcl' = IF lbcl = "lb" THEN "lbcl" ELSE "-"

\* m.ci()
Ci ==
    /\ ~trap
    /\ SetM(ci(M))
    /\ op' = "ci" /\ ret' = TRUE
    /\ UNCHANGED <<scan, frames, alloc>>
    /\ lbcl' = "-"

\* the text an operation appended to the output, without the final space
Emitted(n) == Slice(n.output, Len(output), Len(n.output) - 1)

\* bookkeeping of gn1 / gn2 that left the machine as n: the label is
\* recorded in field f of the innermost open frame
Labelled(n, f) ==
    /\ ret' = IF n.trap THEN <<>> ELSE Emitted(n)
    /\ frames' = IF n.trap \/ frames = <<>> \/ frames[Len(frames)][f] # <<>>
                  THEN frames
                  ELSE [frames EXCEPT ![Len(frames)][f] = Emitted(n)]
    /\ alloc' = IF n.trap THEN alloc ELSE alloc \cup {Emitted(n)}
    /\ UNCHANGED scan

\* m.gn1()
Gn1 ==
    /\ ~trap
    /\ SetM(gn1(M))
    /\ op' = "gn1"
    /\ Labelled(gn1(M), "a")
    /\ lbcl' = "-"

\* m.gn2()
Gn2 ==
    /\ ~trap
    /\ SetM(gn2(M))
    /\ op' = "gn2"
    /\ Labelled(gn2(M), "b")
    /\ lbcl' = "-"

\* m.out()
Out ==
    /\ ~trap
    /\ SetM(out(M))
    /\ op' = "out" /\ ret' = TRUE
    /\ UNCHANGED <<scan, frames, alloc>>
    /\ lbcl' = IF lbcl = "lbcl" THEN "lbclout" ELSE "-"

\* m.lb()
LbOp ==
    /\ ~trap
    /\ SetM(lb(M))
    /\ op' = "lb" /\ ret' = TRUE
    /\ UNCHANGED <<scan, frames, alloc>>
    /\ lbcl' = "lb"

\* m.cll(ric)
Cll(ric) ==
    /\ ~trap
    /\ SetM(cll(M, ric))
    /\ op' = "cll" /\ ret' = ric
    /\ frames' = Append(frames, [ric |-> ric, stk0 |-> stk,
                                  a |-> <<>>, b |-> <<>>])
    /\ UNCHANGED <<scan, alloc>>
    /\ lbcl' = "-"

\* m.r()
R ==
    /\ ~trap
    /\ SetM(r(M))
    /\ op' = "r" /\ ret' = r_ric(M)
    /\ frames' = IF frames = <<>> THEN frames
                  ELSE SubSeq(frames, 1, Len(frames) - 1)
    /\ UNCHANGED <<scan, alloc>>
    /\ lbcl' = "-"

\* m.generated()
Generated ==
    /\ ~trap
    /\ SetM(M)
    /\ op' = "generated" /\ ret' = generated(M)
    /\ UNCHANGED <<scan, frames, alloc>>
    /\ lbcl' = "-"

\* the operation A of M called directly when the machine value n it leaves
\* is within the bounds: output of at most len characters, at most depth
\* calls not yet returned from, label counters of at most cnt
Bounded(A, n, len, depth, cnt) ==
    /\ Len(n.output) <= len
    /\ Depth(n.stk) <= depth
    /\ n.a_cnt <= cnt /\ n.b_cnt <= cnt
    /\ A
    /\ UNCHANGED <<avars, xvars>>

\* a direct call leaves the program and run() alone
Idle == UNCHANGED <<avars, xvars>>

\* the operation A of M called directly
Call(A) == A /\ Idle

(***************************************************************************)
(* SpecScan: the operations on pos, sw and last, on every short input.     *)
(***************************************************************************)
InitScan ==
    /\ \E inp \in ScanInputs : IsM(new(inp))
    /\ Fresh
    /\ Direct

NextScan ==
    \/ \E s \in { <<"a">>, <<".">>, <<>> } : Call(Tst(s))
    \/ Call(Id)
    \/ Call(Num)
    \/ Call(Sr)
    \/ Call(Set)
    \/ Call(Be)
    \/ Call(Generated)

SpecScan == InitScan /\ [][NextScan]_vars

(***************************************************************************)
(* SpecStk: the operations on the stack and the label counters.            *)
(***************************************************************************)
NextStk ==
    \/ \E ric \in {0, 1} :
          Bounded(Cll(ric), cll(M, ric), StkOut, StkDepth, StkCnt)
    \/ Call(R)
    \/ Bounded(Gn1, gn1(M), StkOut, StkDepth, StkCnt)
    \/ Bounded(Gn2, gn2(M), StkOut, StkDepth, StkCnt)
    \/ Call(LbOp)

SpecStk == Init /\ [][NextStk]_vars

(***************************************************************************)
(* SpecRef: cll, r, gn1 and gn2 called on the machine and, with the same   *)
(* arguments, on the reference machine.                                    *)
(***************************************************************************)
\* the operation A of M called directly, leaving the machine as n, and the
\* same operation called on the reference machine, leaving it as rn
RefCall(A, n, rn) ==
    /\ Len(n.output) <= RefOut
    /\ Depth(n.stk) <= StkDepth
    /\ n.a_cnt <= StkCnt /\ n.b_cnt <= StkCnt
    /\ A
    /\ refm' = rn
    /\ UNCHANGED <<pgm, dialect, text, nlines, blks, decl, res, gram, avm, lx,
                   xvars>>

NextRef ==
    \/ \E ric \in {0, 1} : RefCall(Cll(ric), cll(M, ric), ref_cll(refm, ric))
    \/ RefCall(R, r(M), r(refm))
    \/ RefCall(Gn1, gn1(M), gn1(refm))
    \/ RefCall(Gn2, gn2(M), gn2(refm))

SpecRef == Init /\ [][NextRef]_vars

(***************************************************************************)
(* SpecOut: the operations on the output buffer.                           *)
(***************************************************************************)
NextOut ==
    \/ \E s \in { <<"X">>, <<"Y", "Z">> } :
          Bounded(Cl(s), cl(M, s), OutLen, OutDepth, OutCnt)
    \/ Bounded(Ci, ci(M), OutLen, OutDepth, OutCnt)
    \/ Bounded(Gn1, gn1(M), OutLen, OutDepth, OutCnt)
    \/ Bounded(Gn2, gn2(M), OutLen, OutDepth, OutCnt)
    \/ Bounded(Out, out(M), OutLen, OutDepth, OutCnt)
    \/ Call(LbOp)
    \/ Bounded(Cll(0), cll(M, 0), OutLen, OutDepth, OutCnt)
    \/ Call(Id)

SpecOut == Init /\ [][NextOut]_vars

(***************************************************************************)
(* SpecFrm: the scanning primitives, set and be together with the          *)
(* operations on the output, the stack and the label counters.             *)
(***************************************************************************)
\* let m = M::new("1234abcd'ef'"): a number, an identifier and a string
InitFrm ==
    /\ IsM(new(<<"1", "2", "3", "4", "a", "b", "c", "d", "'", "e", "f", "'">>))
    /\ Fresh
    /\ Direct

NextFrm ==
    \/ Call(Tst(<<"a", "b", "c", "d">>))
    \/ Call(Id)
    \/ Call(Num)
    \/ Call(Sr)
    \/ Call(Set)
    \/ Call(Be)
    \/ Bounded(Cl(<<"W", "X", "Y", "Z">>), cl(M, <<"W", "X", "Y", "Z">>),
               FrmOut, FrmDepth, FrmCnt)
    \/ Bounded(Ci, ci(M), FrmOut, FrmDepth, FrmCnt)
    \/ Bounded(Gn1, gn1(M), FrmOut, FrmDepth, FrmCnt)
    \/ Bounded(Gn2, gn2(M), FrmOut, FrmDepth, FrmCnt)
    \/ Bounded(Out, out(M), FrmOut, FrmDepth, FrmCnt)
    \/ Call(LbOp)
    \/ Bounded(Cll(1), cll(M, 1), FrmOut, FrmDepth, FrmCnt)
    \/ Call(R)

SpecFrm == InitFrm /\ [][NextFrm]_vars

(***************************************************************************)
(* SpecRun: run() of meta/src/lib.rs on a loaded program and a source.     *)
(***************************************************************************)
\* the machine programs run() is given, as the lines of their text
Programs ==
    [
     \* scenario 1 of the specification: the identity program
     Identity |->
       <<<<" ", "A", "D", "R", " ", "S">>,
        <<"S">>,
        <<" ", "R">>,
        <<" ", "E", "N", "D">>>>,
     \* tests::m_num_not_accepted as a program (scenario 3)
     Num |->
       <<<<" ", "A", "D", "R", " ", "S">>,
        <<"S">>,
        <<" ", "N", "U", "M">>,
        <<" ", "B", "E">>,
        <<" ", "R">>,
        <<" ", "E", "N", "D">>>>,
     \* scenario 2
     Id |->
       <<<<" ", "A", "D", "R", " ", "S">>,
        <<"S">>,
        <<" ", "I", "D">>,
        <<" ", "B", "E">>,
        <<" ", "C", "I">>,
        <<" ", "O", "U", "T">>,
        <<" ", "R">>,
        <<" ", "E", "N", "D">>>>,
     \* BE is the first instruction executed
     BeFirst |->
       <<<<" ", "A", "D", "R", " ", "S">>,
        <<"S">>,
        <<" ", "B", "E">>,
        <<" ", "R">>,
        <<" ", "E", "N", "D">>>>,
     \* one rule called from the start rule, with every remaining instruction
     Rule |->
       <<<<" ", "A", "D", "R", " ", "S">>,
        <<"S">>,
        <<" ", "C", "L", "L", " ", "T">>,
        <<" ", "B", "E">>,
        <<" ", "R">>,
        <<"T">>,
        <<" ", "T", "S", "T", " ", "'", "a", "'">>,
        <<" ", "B", "F", " ", "A", "1">>,
        <<" ", "L", "B">>,
        <<" ", "G", "N", "1">>,
        <<" ", "C", "L", " ", "'", "X", "'">>,
        <<" ", "O", "U", "T">>,
        <<" ", "B", " ", "A", "2">>,
        <<"A", "1">>,
        <<" ", "S", "R">>,
        <<" ", "B", "T", " ", "A", "2">>,
        <<" ", "S", "E", "T">>,
        <<" ", "G", "N", "2">>,
        <<" ", "C", "I">>,
        <<"A", "2">>,
        <<" ", "R">>,
        <<" ", "E", "N", "D">>>>,
     \* labels in the start rule and in rules called from it, three calls deep
     Labels |->
       <<<<" ", "A", "D", "R", " ", "S">>,
        <<"S">>,
        <<" ", "G", "N", "1">>,
        <<" ", "C", "L", "L", " ", "T">>,
        <<" ", "G", "N", "1">>,
        <<" ", "G", "N", "2">>,
        <<" ", "S", "E", "T">>,
        <<" ", "R">>,
        <<"T">>,
        <<" ", "G", "N", "1">>,
        <<" ", "C", "L", "L", " ", "U">>,
        <<" ", "R">>,
        <<"U">>,
        <<" ", "C", "L", "L", " ", "V">>,
        <<" ", "R">>,
        <<"V">>,
        <<" ", "G", "N", "2">>,
        <<" ", "R">>,
        <<" ", "E", "N", "D">>>>,
     \* the label of ADR is declared before it: the start address is 0
     AdrLoop |->
       <<<<"S">>,
        <<" ", "A", "D", "R", " ", "S">>,
        <<" ", "R">>,
        <<" ", "E", "N", "D">>>>,
     \* the rule does not end with R
     NoReturn |->
       <<<<" ", "A", "D", "R", " ", "S">>,
        <<"S">>,
        <<" ", "I", "D">>,
        <<" ", "E", "N", "D">>>>,
     \* the program does not start with ADR
     NoAdr |->
       <<<<" ", "R">>,
        <<" ", "E", "N", "D">>>>
    ]

\* the sources
RunInputs ==
    { <<>>,
      <<"1", "2", ".", ".", "3", "3">>,
      <<" ", " ", "1", "2", ".", ".", "3", "3">>,
      <<"a", "b", "c">>,
      <<" ", "a", " ", "'", "b", "'">>,
      <<"'", "q", "'", " ">>,
      <<" ", VT, "a">> }

\* let p = mparse::load(..)?; let mut m = M::new(&source);
InitRun ==
    /\ \E inp \in RunInputs : IsM(new(inp))
    /\ Fresh
    /\ pgm \in {parse("meta", Programs[k]) : k \in DOMAIN Programs}
    /\ pgm.st = "ok"
    /\ dialect = "meta"
    /\ text = <<>> /\ nlines = 0 /\ blks = 0 /\ decl = <<>>
    /\ res = "-" /\ gram = <<>> /\ avm = avm_new /\ lx = Lexer(<<>>, {})
    /\ refm = new(<<>>)
    /\ ic = 0 /\ phase = "loaded" /\ halt = "-" /\ printed = <<>>

\* the start of execute: self.cll(0) and the match on pgm.instrs[0]
XProlog ==
    /\ phase = "loaded" /\ ~trap
    /\ IF pgm.instrs # <<>> /\ pgm.instrs[1].op = "ADR"
       THEN /\ Cll(0)
            /\ ic' = pgm.instrs[1].val
            /\ phase' = "exec"
       ELSE /\ SetM([cll(M, 0) EXCEPT !.trap = TRUE])
            /\ UNCHANGED <<hvars, ic, phase>>
    /\ UNCHANGED <<avars, halt, printed>>

\* the loop of execute is about to fetch pgm.instrs[ic]
Fetching == phase = "exec" /\ ~trap

\* the instruction fetched is of variant v
At(v) == Fetching /\ ic < Len(pgm.instrs) /\ pgm.instrs[ic + 1].op = v

\* the argument and the target of the instruction fetched
Arg == pgm.instrs[ic + 1].arg
Target == pgm.instrs[ic + 1].val

\* the end of the loop body: ic += 1
Step == ic' = ic + 1 /\ UNCHANGED <<avars, phase, halt, printed>>

\* a branch: ic = *jic; continue
Jump(to) == ic' = to /\ UNCHANGED <<avars, phase, halt, printed>>

\* pgm.instrs[ic] with ic out of bounds panics
XOob ==
    /\ Fetching /\ ic >= Len(pgm.instrs)
    /\ SetM([M EXCEPT !.trap = TRUE])
    /\ UNCHANGED <<hvars, avars, xvars>>

\* MInstr::Undef and MInstr::ADR panic
XPanic ==
    /\ (At("Undef") \/ At("ADR"))
    /\ SetM([M EXCEPT !.trap = TRUE])
    /\ UNCHANGED <<hvars, avars, xvars>>

\* an arm of the match that calls the operation A of M and falls through
\* to ic += 1
Exec(v, A) == At(v) /\ A /\ Step

\* the arms B, BT and BF: ic = *jic; continue when the branch is taken
Branch(v, taken) ==
    /\ At(v)
    /\ UNCHANGED <<mvars, hvars>>
    /\ IF taken THEN Jump(Target) ELSE Step

\* the CLL arm with a slip: the return index pushed is that of the CLL itself
XCll_self == At("CLL") /\ Cll(ic) /\ Jump(Target)

\* MInstr::CLL
XCll == At("CLL") /\ Cll(ic + 1) /\ Jump(Target)

\* MInstr::R: ic = self.r(); break if it is 0
XR ==
    /\ At("R")
    /\ R
    /\ IF r(M).trap THEN UNCHANGED xvars
       ELSE /\ ic' = r_ric(M)
            /\ phase' = IF r_ric(M) = 0 THEN "halted" ELSE phase
            /\ halt' = IF r_ric(M) = 0 THEN "R" ELSE halt
            /\ UNCHANGED printed
    /\ UNCHANGED avars

\* the BE arm with a slip: the loop goes on after a failure
XBe_nobreak == At("BE") /\ Be /\ Step

\* MInstr::BE: break unless be() is Ok(Recognized)
XBe ==
    /\ At("BE")
    /\ Be
    /\ IF be(M) = "Ok" THEN Step
       ELSE /\ phase' = "halted" /\ halt' = "BE"
            /\ UNCHANGED <<avars, ic, printed>>

\* the text "unexpected:" and a newline
Unexpected ==
    <<"u", "n", "e", "x", "p", "e", "c", "t", "e", "d", ":", "\n">>

\* the match on m.generated() in run: both arms print one line
RunReport ==
    /\ phase = "halted"
    /\ Generated
    /\ printed' = IF generated(M).ok
                  THEN generated(M).out \o <<"\n">>
                  ELSE (Unexpected \o left(M)) \o <<"\n">>
    /\ phase' = "done"
    /\ UNCHANGED <<avars, ic, halt>>

NextRun ==
    \/ XProlog
    \/ XOob
    \/ XPanic
    \/ Exec("TST", Tst(Arg))
    \/ Exec("ID", Id)
    \/ Exec("NUM", Num)
    \/ Exec("SR", Sr)
    \/ XCll
    \/ XR
    \/ Exec("SET", Set)
    \/ Branch("B", TRUE)
    \/ Branch("BT", sw)
    \/ Branch("BF", ~sw)
    \/ XBe
    \/ Exec("CL", Cl(Arg))
    \/ Exec("CI", Ci)
    \/ Exec("GN1", Gn1)
    \/ Exec("GN2", Gn2)
    \/ Exec("LB", LbOp)
    \/ Exec("OUT", Out)
    \/ RunReport

SpecRun == InitRun /\ [][NextRun]_vars

(***************************************************************************)
(* SpecAsm: MProgram::parse, one line of the text at a time, for each      *)
(* instruction set.                                                        *)
(***************************************************************************)
\* the lines a text is made of, with what each is meant to be: kind is
\* "label" for the declaration of `label`, "blk" for a BLK line with the
\* whole non-negative operand `blk`, "blkbad" for a BLK line with another
\* number, "end" for END, "comment", or "instr" for any other mnemonic
AsmLines ==
    { [text |-> <<" ", "A", "D", "R", " ", "S">>,
       kind |-> "instr", label |-> <<>>, blk |-> 0],
      [text |-> <<"S">>,
       kind |-> "label", label |-> <<"S">>, blk |-> 0],
      [text |-> <<"T">>,
       kind |-> "label", label |-> <<"T">>, blk |-> 0],
      [text |-> <<" ", "R">>,
       kind |-> "instr", label |-> <<>>, blk |-> 0],
      [text |-> <<" ", "C", "L", " ", "'", "X", "'">>,
       kind |-> "instr", label |-> <<>>, blk |-> 0],
      [text |-> <<" ", "B", " ", "S">>,
       kind |-> "instr", label |-> <<>>, blk |-> 0],
      [text |-> <<" ", "E", "N", "D">>,
       kind |-> "end", label |-> <<>>, blk |-> 0],
      [text |-> <<"#", " ", "c">>,
       kind |-> "comment", label |-> <<>>, blk |-> 0],
      [text |-> <<" ", "B", "L", "K", " ", "2">>,
       kind |-> "blk", label |-> <<>>, blk |-> 2],
      [text |-> <<" ", "B", "L", "K", " ", "0">>,
       kind |-> "blk", label |-> <<>>, blk |-> 0],
      [text |-> <<" ", "L", "D", "L", " ", "5">>,
       kind |-> "instr", label |-> <<>>, blk |-> 0],
      [text |-> <<" ", "H", "L", "T">>,
       kind |-> "instr", label |-> <<>>, blk |-> 0],
      [text |-> <<" ", "S", "T", " ", "S">>,
       kind |-> "instr", label |-> <<>>, blk |-> 0],
      [text |-> <<" ", "A", "D", "D", " ", "#", " ", "c">>,
       kind |-> "instr", label |-> <<>>, blk |-> 0],
      [text |-> <<" ", "B", "L", "K", " ", "1", ".", "5">>,
       kind |-> "blkbad", label |-> <<>>, blk |-> 0],
      [text |-> <<" ", "B", "L", "K", " ", "-", "1">>,
       kind |-> "blkbad", label |-> <<>>, blk |-> 0],
      [text |-> <<" ", "B", "T", "P", " ", "T">>,
       kind |-> "instr", label |-> <<>>, blk |-> 0] }

\* let mut p = MProgram::new(); p.parse(text); no machine is running
InitAsm ==
    /\ IsM(new(<<>>))
    /\ Fresh
    /\ pgm = pnew /\ dialect \in {"meta", "test", "avm"}
    /\ text \in UNION {[1..n -> AsmLines] : n \in 0..MaxLines}
    /\ nlines = 0 /\ blks = 0 /\ decl = <<>>
    /\ res = "-" /\ gram = <<>> /\ avm = avm_new /\ lx = Lexer(<<>>, {})
    /\ refm = new(<<>>)
    /\ ic = 0 /\ phase = "asm" /\ halt = "-" /\ printed = <<>>

\* the line the loop of parse is at
Line == text[nlines + 1]

\* one iteration of the loop of parse with a slip: END does not end the loop
AsmLine_noend ==
    /\ phase = "asm" /\ pgm.st \in {"run", "end"}
    /\ nlines < Len(text)
    /\ pgm' = parse_line(dialect, [pgm EXCEPT !.st = "run"], Line.text)
    /\ nlines' = nlines + 1
    /\ blks' = IF pgm'.st = "run" THEN blks + Line.blk ELSE blks
    /\ decl' = IF Line.kind = "label"
               THEN Put(decl, Line.label,
                        [n |-> Len(pgm.instrs), addr |-> pgm.addr])
               ELSE decl
    /\ UNCHANGED <<mvars, hvars, dialect, text, res, gram, avm, lx, refm, xvars>>

\* one iteration of the loop of parse
AsmLine ==
    /\ phase = "asm" /\ pgm.st = "run"
    /\ nlines < Len(text)
    /\ pgm' = parse_line(dialect, pgm, Line.text)
    /\ nlines' = nlines + 1
    /\ blks' = IF pgm'.st = "run" THEN blks + Line.blk ELSE blks
    /\ decl' = IF Line.kind = "label"
               THEN Put(decl, Line.label,
                        [n |-> Len(pgm.instrs), addr |-> pgm.addr])
               ELSE decl
    /\ UNCHANGED <<mvars, hvars, dialect, text, res, gram, avm, lx, refm, xvars>>

\* the loop of parse is over (no line is left, or END was read):
\* self.resolve()
AsmResolve ==
    /\ phase = "asm"
    /\ pgm.st = "end" \/ (pgm.st = "run" /\ nlines = Len(text))
    /\ pgm' = resolve(dialect, pgm)
    /\ phase' = "parsed"
    /\ UNCHANGED <<mvars, hvars, dialect, text, nlines, blks, decl, res,
                   gram, avm, lx, refm, ic, halt, printed>>

NextAsm ==
    \/ AsmLine
    \/ AsmResolve

SpecAsm == InitAsm /\ [][NextAsm]_vars

(***************************************************************************)
(* SpecBoot: main of metabstrp on the text of a grammar with one rule,     *)
(* .SYNTAX A  A = alternative / .. / alternative ; .END                    *)
(***************************************************************************)
\* the most alternatives of the rule
MaxAlts == 3

\* the text of the grammar whose rule has the alternatives g: the one of
\* the test program_works when the alternatives are X and 'Y'
GrammarText(g) ==
    LET ItemText(it) ==
            CASE it = "X" -> <<"X">>
              [] it = "Y" -> <<"'", "Y", "'">>
              [] it = "O" -> <<".", "O", "U", "T", "(", "*", ")">>
        RECURSIVE AltText(_)
        AltText(alt) ==
            IF alt = <<>> THEN <<>>
            ELSE IF Len(alt) = 1 THEN ItemText(alt[1])
            ELSE (ItemText(alt[1]) \o <<" ">>) \o AltText(Tail(alt))
        RECURSIVE AltsText(_)
        AltsText(h) ==
            IF Len(h) = 1 THEN AltText(h[1])
            ELSE (AltText(h[1]) \o <<" ", "/", " ">>) \o AltsText(Tail(h))
    IN  (<<"\n", ".", "S", "Y", "N", "T", "A", "X", " ", "A", "\n", "\n", "A", " ", "=", " ", " ">> \o AltsText(g)) \o <<" ", ";", "\n", "\n", ".", "E", "N", "D", "\n">>

\* let syntax = fs::read_to_string(..); let mut m = meta::M::new(&syntax);
InitBoot ==
    /\ LET
        \* the alternatives: sequences of the items "X" (the identifier X), "Y"
        \* (the string 'Y') and "O" (the clause .OUT(*)); the empty one makes the
        \* grammar malformed
        BootAlts ==
            { <<>>, <<"X">>, <<"Y">>, <<"O">>, <<"X", "Y">>, <<"X", "O">>,
              <<"O", "X">> }
       IN  gram \in UNION {[1..n -> BootAlts] : n \in 1..MaxAlts}
    /\ IsM(new(GrammarText(gram)))
    /\ Fresh
    /\ pgm = pnew /\ dialect = "meta"
    /\ text = <<>> /\ nlines = 0 /\ blks = 0 /\ decl = <<>>
    /\ res = "-" /\ avm = avm_new /\ lx = Lexer(<<>>, {})
    /\ refm = new(<<>>)
    /\ ic = 0 /\ phase = "src" /\ halt = "-" /\ printed = <<>>

\* let _ = program(&mut m);
BootProgram ==
    /\ phase = "src"
    /\ \E x \in {program(M)} : SetM(x.m) /\ res' = x.res
    /\ phase' = "translated"
    /\ UNCHANGED <<hvars, pgm, dialect, text, nlines, blks, decl, gram, avm,
                   lx, refm,
                   ic, halt, printed>>

\* the match on m.generated() in main: both arms print one line
BootReport ==
    /\ phase = "translated" /\ ~trap
    /\ printed' = IF generated(M).ok
                  THEN generated(M).out \o <<"\n">>
                  ELSE (Unexpected \o left(M)) \o <<"\n">>
    /\ phase' = "done"
    /\ UNCHANGED <<mvars, hvars, avars, ic, halt>>

NextBoot ==
    \/ BootProgram
    \/ BootReport

SpecBoot == InitBoot /\ [][NextBoot]_vars

(***************************************************************************)
(* SpecNest: main of metabstrp on grammars given as a few tokens, and the  *)
(* recognizers of metabstrp called on a few tokens of the body of a rule.  *)
(***************************************************************************)
\* the most tokens in the body of the rule
MaxBody == 4

\* the text of a sequence of tokens, which one space separates: "S" is
\* .SYNTAX, "E" .END, "O" the clause .OUT(*), "Y" the string 'Y', "L" the
\* identifier A001, and every other token its own text
RECURSIVE TokensText(_)
TokensText(ts) ==
    LET Piece(t) ==
            CASE t = "S" -> <<".", "S", "Y", "N", "T", "A", "X">>
              [] t = "E" -> <<".", "E", "N", "D">>
              [] t = "O" -> <<".", "O", "U", "T", "(", "*", ")">>
              [] t = "Y" -> <<"'", "Y", "'">>
              [] t = "L" -> <<"A", "0", "0", "1">>
              [] OTHER -> <<t>>
    IN  IF ts = <<>> THEN <<>>
        ELSE IF Len(ts) = 1 THEN Piece(ts[1])
        ELSE (Piece(ts[1]) \o <<" ">>) \o TokensText(Tail(ts))

\* let mut m = meta::M::new(&syntax): the syntax is a grammar with one rule A
\* whose body is any few tokens, or one of some texts that are no grammar,
\* for main; or the body alone, for a call of one recognizer
InitNest ==
    /\ LET Bodies ==
               UNION {[1..n -> {"X", "Y", "O", "(", ")", "$", "/"}] :
                        n \in 0..MaxBody}
           Others ==
               { <<>>, <<"S">>, <<"S", "A">>, <<"S", "A", "E">>, <<"S", "E">>,
                 <<"A", "=", "X", ";", "E">>,
                 <<"S", "A", "A", "=", "X", ";">>,
                 <<"S", "A", "A", "=", "X", ";", "E", "X">>,
                 <<"S", "A", "A", "X", ";", "E">>,
                 <<"S", "A", "A", "=", "X", "E">>,
                 <<"S", "A", "A", "=", "X", ";", "X", "=", "Y", ";", "E">>,
                 <<"S", "L", "L", "=", "X", ";", "E">>,
                 <<"S", "L", "L", "=", "$", "X", "/", "Y", ";", "E">> }
       IN  \/ /\ gram \in {(<<"S", "A", "A", "=">> \o b) \o <<";", "E">> :
                             b \in Bodies} \cup Others
              /\ phase = "src"
           \/ gram \in Bodies /\ phase = "api"
    /\ IsM(new(TokensText(gram)))
    /\ Fresh
    /\ pgm = pnew /\ dialect = "meta"
    /\ text = <<>> /\ nlines = 0 /\ blks = 0 /\ decl = <<>>
    /\ res = "-" /\ avm = avm_new /\ lx = Lexer(<<>>, {})
    /\ refm = new(<<>>)
    /\ ic = 0 /\ halt = "-" /\ printed = <<>>

\* one recognizer called on the machine just made: x is what it returns
RecCall(name, x) ==
    /\ phase = "api" /\ op = "new"
    /\ SetM(x.m) /\ res' = x.res
    /\ op' = name
    /\ UNCHANGED <<ret, scan, frames, alloc, lbcl, pgm, dialect, text, nlines,
                   blks, decl, gram, avm, lx, refm, xvars>>

NextNest ==
    \/ BootProgram
    \/ BootReport
    \/ RecCall("out1", out1(M))
    \/ RecCall("output", output_fn(M))
    \/ RecCall("ex3", ex3(M))
    \/ RecCall("ex2", ex2(M))
    \/ RecCall("ex1", ex1(M))
    \/ RecCall("st", st(M))

SpecNest == InitNest /\ [][NextNest]_vars

(***************************************************************************)
(* SpecAvm: M::execute of valgol1m on a loaded program.                    *)
(***************************************************************************)
\* the most lines of a program drawn from AvmLines
MaxProg == 3

\* programs of the AVM: the one of the acceptance example, a loop that
\* counts a memory cell down, one with branches taken and not taken
AvmTexts ==
    [Example |-> << <<" ", "L", "D", "L", " ", "2">>,
                 <<" ", "L", "D", "L", " ", "3">>,
                 <<" ", "A", "D", "D">>,
                 <<" ", "L", "D", "L", " ", "5">>,
                 <<" ", "E", "Q", "U">>,
                 <<" ", "B", "F", "P", " ", "F">>,
                 <<" ", "L", "D", "L", " ", "0">>,
                 <<" ", "E", "D", "T", " ", "'", "o", "k", "'">>,
                 <<" ", "P", "N", "T">>,
                 <<" ", "H", "L", "T">>,
                 <<"F">>,
                 <<" ", "H", "L", "T">>,
                 <<" ", "E", "N", "D">> >>,
     Loop |-> << <<" ", "B", " ", "S">>,
              <<"X">>,
              <<" ", "B", "L", "K", " ", "1">>,
              <<"S">>,
              <<" ", "L", "D", "L", " ", "2">>,
              <<" ", "S", "T", " ", "X">>,
              <<"L">>,
              <<" ", "L", "D", "L", " ", "1">>,
              <<" ", "L", "D", " ", "X">>,
              <<" ", "S", "U", "B">>,
              <<" ", "S", "T", " ", "X">>,
              <<" ", "L", "D", " ", "X">>,
              <<" ", "B", "T", "P", " ", "L">>,
              <<" ", "L", "D", "L", " ", "0">>,
              <<" ", "E", "D", "T", " ", "'", "z", "'">>,
              <<" ", "P", "N", "T">>,
              <<" ", "H", "L", "T">>,
              <<" ", "E", "N", "D">> >>,
     Skip |-> << <<" ", "L", "D", "L", " ", "0">>,
              <<" ", "B", "F", "P", " ", "F">>,
              <<" ", "L", "D", "L", " ", "1">>,
              <<"F">>,
              <<" ", "L", "D", "L", " ", "1", ".", "5">>,
              <<" ", "L", "D", "L", " ", "1", ".", "5">>,
              <<" ", "M", "L", "T">>,
              <<" ", "L", "D", "L", " ", "2", ".", "2", "5">>,
              <<" ", "E", "Q", "U">>,
              <<" ", "B", "T", "P", " ", "T">>,
              <<" ", "H", "L", "T">>,
              <<"T">>,
              <<" ", "P", "N", "T">>,
              <<" ", "H", "L", "T">> >>]

\* let p = load(..)?; let mut m = M::new(); the local ic of execute is 0
InitAvm ==
    /\ IsM(new(<<>>))
    /\ Fresh
    /\ LET
        \* lines that programs are made of
        AvmLines ==
            { <<" ", "L", "D", "L", " ", "1">>,
              <<" ", "L", "D", "L", " ", "1", ".", "5">>,
              <<" ", "A", "D", "D">>,
              <<" ", "S", "U", "B">>,
              <<" ", "M", "L", "T">>,
              <<" ", "E", "Q", "U">>,
              <<" ", "E", "D", "T", " ", "'", "a", "b", "'">>,
              <<" ", "P", "N", "T">>,
              <<" ", "H", "L", "T">> }
       IN  \E t \in {AvmTexts[k] : k \in DOMAIN AvmTexts}
                     \cup UNION {[1..n -> AvmLines] : n \in 1..MaxProg} :
              pgm = avm_parse(t)
    /\ pgm.st = "ok"
    /\ dialect = "avm"
    /\ text = <<>> /\ nlines = 0 /\ blks = 0 /\ decl = <<>>
    /\ res = "-" /\ gram = <<>> /\ avm = avm_new /\ lx = Lexer(<<>>, {})
    /\ refm = new(<<>>)
    /\ ic = 0 /\ phase = "exec" /\ halt = "-" /\ printed = <<>>

\* an arm of the match of execute that leaves the machine as n and goes on
\* at the instruction to (nowhere when the machine has panicked)
VExec(v, n, to) ==
    /\ At(v)
    /\ avm' = n
    /\ trap' = n.trap
    /\ ic' = IF n.trap THEN ic ELSE to
    /\ UNCHANGED <<input, pos, sw, last, a_cnt, b_cnt, output, stk, hvars,
                   pgm, dialect, text, nlines, blks, decl, res, gram, lx, refm,
                   phase, halt, printed>>

\* MInstr::HLT => break
VHlt ==
    /\ At("HLT")
    /\ phase' = "halted" /\ halt' = "HLT"
    /\ UNCHANGED <<mvars, hvars, avars, ic, printed>>

NextAvm ==
    \/ VExec("LDL", push(avm, F64(Arg)), ic + 1)
    \/ VExec("LD", ld(avm, Target), ic + 1)
    \/ VExec("ST", avm_st(avm, Target), ic + 1)
    \/ Branch("B", TRUE)
    \/ VExec("BFP", pop(avm),
             IF avm.stack # <<>> /\ Top(avm).n = 0 THEN Target ELSE ic + 1)
    \/ VExec("BTP", pop(avm),
             IF avm.stack # <<>> /\ Top(avm).n # 0 THEN Target ELSE ic + 1)
    \/ VExec("ADD", add(avm), ic + 1)
    \/ VExec("SUB", sub(avm), ic + 1)
    \/ VExec("MLT", mlt(avm), ic + 1)
    \/ VExec("EQU", equ(avm), ic + 1)
    \/ VExec("EDT", edt(avm, Arg), ic + 1)
    \/ VExec("PNT", pnt(avm), ic + 1)
    \/ VHlt
    \/ XOob

SpecAvm == InitAvm /\ [][NextAvm]_vars

(***************************************************************************)
(* SpecPrt: values pushed as LDL pushes them, and edt and pnt called in    *)
(* any order.                                                              *)
(***************************************************************************)
\* the most values on the stack and the most lines printed
MaxStack == 1
MaxPrinted == 1

\* let mut m = M::new();
InitPrt ==
    /\ IsM(new(<<>>))
    /\ Fresh
    /\ Direct

\* the operation called name with the argument arg, which leaves the
\* machine as n
VCall(name, arg, n) ==
    /\ phase = "api" /\ ~trap
    /\ Len(n.stack) <= MaxStack /\ Len(n.printed) <= MaxPrinted
    /\ avm' = n
    /\ trap' = n.trap
    /\ op' = name /\ ret' = arg
    /\ UNCHANGED <<input, pos, sw, last, a_cnt, b_cnt, output, stk, scan,
                   frames, alloc, lbcl, pgm, dialect, text, nlines, blks,
                   decl, res, gram, lx, refm, xvars>>

\* the values pushed are -1, -0.5, -0.25, 0, 0.5, 98, 98.5, 99, 100, 101 and
\* a value of 2^64 or more; the texts edited are the empty one and ab
NextPrt ==
    \/ \E v \in { Dy(-1, 0), Dy(-1, 1), Dy(-1, 2), Dy(0, 0), Dy(1, 1),
                  Dy(98, 0), Dy(197, 1), Dy(99, 0), Dy(100, 0), Dy(101, 0),
                  Huge } :
          VCall("push", v, push(avm, v))
    \/ \E s \in { <<>>, <<"a", "b">> } : VCall("edt", s, edt(avm, s))
    \/ VCall("pnt", <<>>, pnt(avm))

SpecPrt == InitPrt /\ [][NextPrt]_vars

(***************************************************************************)
(* SpecLoad: one text of AVM assembly given to the assembler of mparse,    *)
(* with the instruction set of the AVM, and to the one built into          *)
(* valgol1m.                                                               *)
(***************************************************************************)
\* let p = mparse::parse::<MInstr>(text) and let q = MProgram::new();
\* q.parse(text) of valgol1m are both still to run
InitLoad ==
    /\ IsM(new(<<>>))
    /\ Fresh
    /\ pgm = pnew /\ dialect = "avm"
    /\ LET \* lines of AVM assembly that AsmLines has not
           More ==
               { <<" ", "E", "D", "T", " ", "'", "a", "'">>,
                 <<" ", "L", "D", " ", "T">>,
                 <<" ", "B", "F", "P", " ", "S">>,
                 <<" ", "B", "L", "K", " ", "S">> }
       IN  text \in UNION {[1..n -> {l.text : l \in AsmLines} \cup More] :
                              n \in 0..MaxLines}
    /\ nlines = 0 /\ blks = 0 /\ decl = <<>>
    /\ res = "-" /\ gram = <<>> /\ avm = avm_new /\ lx = Lexer(<<>>, {})
    /\ refm = new(<<>>)
    /\ ic = 0 /\ phase = "asm" /\ halt = "-" /\ printed = <<>>

\* mparse::parse::<MInstr>(text)
LoadShared ==
    /\ phase = "asm" /\ pgm.st = "run"
    /\ pgm' = parse(dialect, text)
    /\ UNCHANGED <<mvars, hvars, dialect, text, nlines, blks, decl, res,
                   gram, avm, lx, refm, xvars>>

\* q.parse(text) of valgol1m: ret is the program q it leaves
LoadBuiltin ==
    /\ phase = "asm" /\ op = "new"
    /\ op' = "parse" /\ ret' = avm_parse(text)
    /\ UNCHANGED <<mvars, scan, frames, alloc, lbcl, avars, xvars>>

SpecLoad == InitLoad /\ [][LoadShared \/ LoadBuiltin]_vars

(***************************************************************************)
(* SpecLbl: the loop of MProgram::parse one line at a time, on texts with  *)
(* label lines that go on after the label, for the assembler of mparse     *)
(* with each instruction set and for the one built into valgol1m (dialect  *)
(* "valgol1m").                                                            *)
(***************************************************************************)
\* the lines of the texts
LblLines ==
    { <<"S">>,
      <<"T", "1", " ", "L", "D", " ", "T", "1">>,
      <<"S", " ", "'", "x">>,
      <<"T", "1", ".">>,
      <<"S", "#", "c">>,
      <<"T", "1", " ", "S">>,
      <<" ", "L", "D", " ", "T", "1">>,
      <<" ", "B", " ", "S">>,
      <<" ", "H", "L", "T">>,
      <<" ", "B", "L", "K", " ", "2">>,
      <<" ", "E", "N", "D">> }

\* let mut p = MProgram::new(); p.parse(text) is still to run
InitLbl ==
    /\ IsM(new(<<>>))
    /\ Fresh
    /\ pgm = pnew /\ dialect \in {"meta", "test", "avm", "valgol1m"}
    /\ text \in UNION {[1..n -> LblLines] : n \in 0..MaxLines}
    /\ nlines = 0 /\ blks = 0 /\ decl = <<>>
    /\ res = "-" /\ gram = <<>> /\ avm = avm_new /\ lx = Lexer(<<>>, {})
    /\ refm = new(<<>>)
    /\ ic = 0 /\ phase = "asm" /\ halt = "-" /\ printed = <<>>

\* the loop of parse has read its line and p is the program it leaves
LblStep(p) ==
    /\ pgm' = p
    /\ nlines' = nlines + 1
    /\ UNCHANGED <<mvars, hvars, dialect, text, blks, decl, res, gram, avm,
                   lx, refm, xvars>>

\* one iteration of the loop of parse of mparse
LblShared ==
    /\ phase = "asm" /\ pgm.st = "run" /\ dialect # "valgol1m"
    /\ nlines < Len(text)
    /\ LblStep(parse_line(dialect, pgm, text[nlines + 1]))

\* one iteration of the loop of parse of valgol1m
LblBuiltin ==
    /\ phase = "asm" /\ pgm.st = "run" /\ dialect = "valgol1m"
    /\ nlines < Len(text)
    /\ LblStep(avm_parse_line(pgm, TrimEnd(text[nlines + 1]),
                              next_token(AsmSyms, TrimEnd(text[nlines + 1]))))

SpecLbl == InitLbl /\ [][LblShared \/ LblBuiltin]_vars

(***************************************************************************)
(* SpecLex: the tokens of one line of text, read one next_token at a time, *)
(* and the same line given to the loop body of MProgram::parse.            *)
(***************************************************************************)
\* the longest line that is enumerated exhaustively
MaxLex == 4

\* let mut lx = Lexer::new(line, syms); let mut p = MProgram::new();
InitLex ==
    /\ IsM(new(<<>>))
    /\ Fresh
    /\ pgm = pnew /\ dialect = "meta"
    /\ LET \* lines of the test of mparse, where whitespace runs are long
           TestLines ==
               { <<" ", "B", " ", " ", "A", " ", "#", " ", "j", "u", "m", "p">>,
                 <<" ", " ", " ", "B", "L", "K", " ", "0", "0", "3", "#", "b", "l", "k">>,
                 <<" ", " ", "S", "T", " ", "X">>,
                 <<" ", "R", " ", "\t", " ", "#">> }
       IN  text \in {<<l>> : l \in
                       UNION {[1..n -> {" ", "\t", "a", "1", ".", "'", "#", "<", "="}] :
                                n \in 0..MaxLex} \cup TestLines}
    /\ \E syms \in { AsmSyms,
                     { <<"<">>, <<"<", "=", "<">>, <<".", "a", "a">> } } :
          lx = Lexer(text[1], syms)
    /\ nlines = 0 /\ blks = 0 /\ decl = <<>>
    /\ res = "-" /\ gram = <<>> /\ avm = avm_new /\ refm = new(<<>>)
    /\ ic = 0 /\ phase = "lex" /\ halt = "-" /\ printed = <<>>

\* lx.next_token(): ret is what it returned
LexNext ==
    /\ phase = "lex"
    /\ IF op = "new" THEN TRUE ELSE ~(ret.ok /\ ret.tok.k = "End")
    /\ op' = "next_token"
    /\ ret' = next_token(lx.syms, lx.it)
    /\ lx' = [lx EXCEPT !.it = next_token(lx.syms, lx.it).rest]
    /\ UNCHANGED <<mvars, scan, frames, alloc, lbcl, pgm, dialect, text,
                   nlines, blks, decl, res, gram, avm, refm, xvars>>

\* the body of the loop of MProgram::parse for the line
LexLine ==
    /\ phase = "lex" /\ nlines = 0
    /\ pgm' = parse_line(dialect, pgm, text[1])
    /\ nlines' = 1
    /\ UNCHANGED <<mvars, hvars, dialect, text, blks, decl, res, gram, avm,
                   lx, refm, xvars>>

SpecLex == InitLex /\ [][LexNext \/ LexLine]_vars

(***************************************************************************)
(* Properties.                                                             *)
(***************************************************************************)
ScanOps == {"tst", "id", "num", "sr"}

\* C1: across every call of a scanning primitive (TST s, ID, NUM, SR,
\* succeeding or failing) pos does not decrease and stays <= len(input).
C1_PosMonotone ==
    [][op' \in ScanOps => (pos' >= pos /\ pos' <= Len(input'))]_vars

\* a failed scanning primitive has moved pos over whitespace to the end of
\* the input
C1_Witness ==
    op \in ScanOps /\ ~sw /\ pos = Len(input) /\ pos > 0

\* last is the text of input that ends exactly at pos
EndsAtPos ==
    Len(last) <= pos /\ Slice(input, pos - Len(last), pos) = last

\* last is a contiguous piece of input that ends at or before pos
EndsBeforePos ==
    \E e \in Len(last)..pos : Slice(input, e - Len(last), e) = last

\* C2 as claimed: whenever sw is true, last is a contiguous substring of
\* input that ends exactly at pos.
C2_Original == sw => EndsAtPos

\* C2 as amended: last is always a contiguous substring of input ending at
\* or before pos, and it ends exactly at pos whenever sw is true and the
\* most recent scanning primitive (if any) did not fail, that is unless SET
\* turned sw on after a failed scan.
C2_LastEndsAtPos ==
    EndsBeforePos /\ ((sw /\ scan # "fail") => EndsAtPos)

\* a scanning primitive matched a non-empty lexeme after skipping whitespace
C2_Witness ==
    sw /\ scan = "ok" /\ Len(last) > 0 /\ Len(last) < pos

\* C3: r() returns the ric of the matching cll and leaves the stack exactly
\* as it was before that cll, whatever balanced sequence of operations ran
\* in between and whether or not the cll collapsed two empty slots.
C3_CallReturn ==
    [][(op' = "r" /\ ~trap') =>
         /\ frames # <<>>
         /\ ret' = frames[Len(frames)].ric
         /\ stk' = frames[Len(frames)].stk0]_vars

\* r() has just undone a collapsing cll made inside a frame in which
\* a label was allocated meanwhile by an inner frame
C3_Witness ==
    /\ op = "r" /\ ~trap /\ ret = 1
    /\ Len(stk) = 3 /\ stk[2].s = <<>> /\ stk[3].s = <<>>
    /\ a_cnt > 0

\* n as exactly three decimal digits (n < 1000)
ThreeDigits(n) ==
    <<DigitChar[((n \div 100) % 10) + 1],
      DigitChar[((n \div 10) % 10) + 1],
      DigitChar[(n % 10) + 1]>>

\* GN1 / GN2 emitted e in the innermost open frame, whose label of that kind
\* is recorded in field f; the counter went from c to c2
LabelOk(f, letter, c, c2, e) ==
    /\ frames # <<>>
    /\ IF frames[Len(frames)][f] # <<>>
       THEN e = frames[Len(frames)][f] /\ c2 = c
       ELSE e \notin alloc /\ c2 = c + 1 /\ e = <<letter>> \o ThreeDigits(c2)

\* C4: in one call frame every GN1 emits the same A-label and every GN2 the
\* same B-label, also across balanced nested calls; the first GN1 / GN2 of a
\* frame emits a label no frame has been given before, the counter grows by
\* exactly 1 then and at no other time, and the n-th fresh label is the
\* letter followed by n as three digits.
C4_Labels ==
    [][/\ (op' = "gn1" /\ ~trap') =>
             (LabelOk("a", "A", a_cnt, a_cnt', ret') /\ b_cnt' = b_cnt)
       /\ (op' = "gn2" /\ ~trap') =>
             (LabelOk("b", "B", b_cnt, b_cnt', ret') /\ a_cnt' = a_cnt)
       /\ (op' \notin {"gn1", "gn2"} \/ trap') =>
             (a_cnt' = a_cnt /\ b_cnt' = b_cnt)]_vars

\* GN1 repeated the label A001 of its frame after an inner frame had been
\* given A002
C4_Witness ==
    /\ op = "gn1" /\ ret = <<"A", "0", "0", "1">> /\ a_cnt = 2
    /\ frames # <<>> /\ frames[Len(frames)].a = ret

\* every character of s is whitespace
AllWs(s) == \A i \in 1..Len(s) : s[i] \in UniWs

\* C5: generated() returns the output buffer if and only if sw is true and
\* the input from pos onward is all whitespace; otherwise it returns the
\* Unexpected error.
C5_Generated ==
    op = "generated" =>
        /\ ret.ok <=> (sw /\ AllWs(From(input, pos)))
        /\ ret.ok => ret.out = output

\* generated() succeeded with whitespace left after pos
C5_Witness ==
    op = "generated" /\ ret.ok /\ pos > 0 /\ pos < Len(input)

\* the text after the last newline of o (all of o if there is none)
CurLine(o) == From(o, RFindNl(o) + 1)

\* the last line of o that a newline has completed
DoneLine(o) == CurLine(SubSeq(o, 1, RFindNl(o)))

\* C9: LB; CL s; OUT completes a line that is exactly s and one space from
\* column 0, whatever the current line held before LB; and CL t on a fresh
\* line (initial state or right after OUT, no LB) gives eight spaces, t and
\* one space.
C9_Columns ==
    [][/\ (lbcl = "lbcl" /\ op' = "out") =>
             DoneLine(output') = ret \o <<" ">>
       /\ (op \in {"new", "out"} /\ op' = "cl") =>
             CurLine(output') = (Spaces(8) \o ret') \o <<" ">>]_vars

\* LB; CL X; OUT has just completed the line "X " after an earlier line
C9_Witness ==
    /\ lbcl = "lbclout"
    /\ Len(output) = 12
    /\ DoneLine(output) = <<"X", " ">>

\* the programs of the scenarios, as mparse::load returns them
IdentityProgram == parse("meta", Programs.Identity)
NumProgram == parse("meta", Programs.Num)

\* run() on the identity program and the empty source
IdentityOnEmpty == pgm = IdentityProgram /\ input = <<>>

\* C6 as stated: the identity program on the empty source is a trivial
\* accept: the run halts, generated() is Ok, and the output returned and
\* printed is the initial eight spaces
C6_Original ==
    IdentityOnEmpty =>
        /\ ~trap
        /\ phase # "done" => ENABLED NextRun
        /\ phase = "done" =>
              /\ op = "generated" /\ ret.ok
              /\ ret.out = Spaces(8)
              /\ printed = Spaces(8) \o <<"\n">>

\* C6: the identity program on the empty source halts at the R of the
\* start rule with the output buffer still the initial eight spaces and no
\* input left, but the switch is still false, so generated() is the error
\* and run() reports "unexpected:" with nothing after it
C6_HaltsUnrecognized ==
    IdentityOnEmpty =>
        /\ ~trap
        /\ phase # "done" => ENABLED NextRun
        /\ output = Spaces(8)
        /\ phase \in {"halted", "done"} => halt = "R" /\ stk = <<>>
        /\ phase = "done" =>
              /\ ~sw /\ left(M) = <<>>
              /\ op = "generated" /\ ~ret.ok
              /\ printed = Unexpected \o <<"\n">>

C6_Witness ==
    /\ IdentityOnEmpty /\ phase = "done" /\ halt = "R"
    /\ printed = Unexpected \o <<"\n">>

\* run() on tests::m_num_not_accepted
NumOnDots == pgm = NumProgram /\ input = <<"1", "2", ".", ".", "3", "3">>

\* C7: BE with sw false ends the loop of execute at once: the step changes
\* nothing of the machine (no output appended, the stack not unwound), the
\* only step after it is the report of run(), whose generated() is the
\* error; and the source 12..33 under ADR S/S/NUM/BE/R/END fails with
\* 12..33 left
C7_BeStops ==
    /\ [][(At("BE") /\ ~sw) =>
             /\ phase' = "halted" /\ halt' = "BE"
             /\ ic' = ic
             /\ mvars' = mvars]_vars
    /\ [][(phase = "halted" /\ halt = "BE") =>
             /\ phase' = "done"
             /\ ic' = ic
             /\ mvars' = mvars
             /\ op' = "generated" /\ ~ret'.ok]_vars
    /\ [](NumOnDots /\ phase = "done" =>
             /\ halt = "BE"
             /\ ~ret.ok
             /\ left(M) = <<"1", "2", ".", ".", "3", "3">>
             /\ printed = (Unexpected \o <<"1", "2", ".", ".", "3", "3">>) \o <<"\n">>)

C7_Witness ==
    /\ NumOnDots /\ phase = "done" /\ halt = "BE"
    /\ stk # <<>> /\ output = Spaces(8)

\* run() has reported a recognition failure: BE ended the loop
BeFailed == phase = "done" /\ halt = "BE"

\* what run() printed after "unexpected:" and before the final newline
Reported == Slice(printed, Len(Unexpected), Len(printed) - 1)

\* C8 as stated: the text reported is input[pos..] with nothing removed
C8_Original ==
    BeFailed => printed = (Unexpected \o From(input, pos)) \o <<"\n">>

\* t is s without a leading run of whitespace, and the run is maximal
IsTrimStartOf(t, s) ==
    \E k \in 0..Len(s) :
        /\ t = From(s, k)
        /\ \A i \in 1..k : s[i] \in UniWs
        /\ k < Len(s) => s[k + 1] \notin UniWs

\* C8: on a recognition failure the text reported is input[pos..] without
\* its leading whitespace: only whitespace is removed, and all of it
C8_ReportTrimmed ==
    BeFailed =>
        /\ Len(printed) > Len(Unexpected)
        /\ Slice(printed, 0, Len(Unexpected)) = Unexpected
        /\ printed[Len(printed)] = "\n"
        /\ IsTrimStartOf(Reported, From(input, pos))

\* BE failed before any scanning primitive ran, on a source that starts
\* with blanks: the report is shorter than input[pos..]
C8_Witness ==
    /\ BeFailed /\ scan = "none" /\ pos = 0
    /\ input = <<" ", " ", "1", "2", ".", ".", "3", "3">>
    /\ Reported = <<"1", "2", ".", ".", "3", "3">>

\* the variants without an argument, of the three instruction sets
NoArg ==
    {"ID", "NUM", "SR", "R", "SET", "BE", "CI", "GN1", "GN2", "LB", "OUT",
     "HLT", "EQU", "ADD", "SUB", "MLT", "PNT"}

\* the number of instructions of instrs without an argument
NoArgCount(instrs) == Cardinality({i \in 1..Len(instrs) : instrs[i].op \in NoArg})

\* parse has not failed
Assembling == phase = "asm" /\ pgm.st \in {"run", "end"}

\* C10 as stated: every instruction advances the address counter by 2, so
\* with k instructions and BLKs summing to b the counter is 2*k + b
C10_Original == Assembling => pgm.addr = 2 * Len(pgm.instrs) + blks

\* C10: a line that emits an instruction emits one and advances the address
\* counter by 2 when the instruction has an argument and by 1 when it has
\* none; an accepted BLK n advances it by n and emits nothing; so with k
\* instructions, j of them without an argument, and BLKs summing to b the
\* counter is 2*k - j + b
C10_Advance ==
    /\ [][(Assembling /\ Assembling' /\ pgm'.instrs # pgm.instrs) =>
             /\ Len(pgm'.instrs) = Len(pgm.instrs) + 1
             /\ SubSeq(pgm'.instrs, 1, Len(pgm.instrs)) = pgm.instrs
             /\ blks' = blks
             /\ pgm'.addr - pgm.addr =
                   IF pgm'.instrs[Len(pgm'.instrs)].op \in NoArg
                   THEN 1 ELSE 2]_vars
    /\ [][(Assembling /\ Assembling' /\ blks' # blks) =>
             /\ pgm'.instrs = pgm.instrs
             /\ pgm'.addr - pgm.addr = blks' - blks]_vars
    /\ [](Assembling =>
             pgm.addr = (2 * Len(pgm.instrs) - NoArgCount(pgm.instrs)) + blks)

\* a text with an instruction with an argument, one without, and a BLK
C10_Witness ==
    /\ Assembling /\ blks = 2 /\ Len(pgm.instrs) = 2
    /\ NoArgCount(pgm.instrs) = 1 /\ pgm.addr = 5

\* the variants that refer to an instruction and those that refer to memory
IcOps == {"ADR", "CLL", "B", "BT", "BF", "BTP", "BFP"}
MemOps == {"LD", "ST"}

\* parse has returned after its call of resolve
Parsed == phase = "parsed"

\* the indices of the instructions that refer to a label
Refs == {i \in 1..Len(pgm.instrs) : pgm.instrs[i].op \in IcOps \cup MemOps}

\* C11: after a successful load every instruction that refers to an
\* instruction carries ic[labels[label]], which is the number of
\* instructions emitted before the (latest) declaration line of its label,
\* every instruction that refers to memory carries labels[label], the
\* address at that declaration, and references to one label carry the same
\* value wherever they stand
C11_Targets ==
    (Parsed /\ pgm.st = "ok") =>
        /\ \A i \in Refs :
              LET I == pgm.instrs[i]
              IN  /\ I.arg \in DOMAIN decl
                  /\ I.op \in IcOps =>
                        /\ I.val = pgm.ic[pgm.labels[I.arg]]
                        /\ I.val = decl[I.arg].n
                  /\ I.op \in MemOps =>
                        /\ I.val = pgm.labels[I.arg]
                        /\ I.val = decl[I.arg].addr
        /\ \A i, j \in Refs :
              (pgm.instrs[i].arg = pgm.instrs[j].arg
                 /\ (pgm.instrs[i].op \in IcOps <=> pgm.instrs[j].op \in IcOps))
              => pgm.instrs[i].val = pgm.instrs[j].val

\* B S before the declaration of S and B S after it: both carry 1
C11_Witness ==
    /\ Parsed /\ pgm.st = "ok" /\ Len(pgm.instrs) = 2
    /\ text[2].kind = "label"
    /\ pgm.instrs[1].op = "B" /\ pgm.instrs[1].val = 1
    /\ pgm.instrs[2].op = "B" /\ pgm.instrs[2].val = 1

\* s holds part as a substring
Contains(s, part) ==
    \E i \in 0..(Len(s) - Len(part)) : SubSeq(s, i + 1, i + Len(part)) = part

\* the labels referenced by an instruction and declared by no line read
Undeclared == {pgm.instrs[i].arg : i \in Refs} \ DOMAIN decl

\* every label referenced is declared, and the latest declaration of every
\* label referenced as an instruction is followed by an instruction
AllResolvable ==
    /\ Undeclared = {}
    /\ \A i \in Refs : pgm.instrs[i].op \in IcOps =>
          decl[pgm.instrs[i].arg].n < Len(pgm.instrs)

\* the instructions whose label does not resolve
Unresolved ==
    {i \in Refs : \/ pgm.instrs[i].arg \notin DOMAIN decl
                  \/ /\ pgm.instrs[i].op \in IcOps
                     /\ decl[pgm.instrs[i].arg].n >= Len(pgm.instrs)}

\* C12 as stated: a text whose references all resolve loads, and a text
\* with a reference to an undeclared label fails with a message that holds
\* the name of that label, for each such label
C12_Original ==
    Parsed =>
        /\ AllResolvable => pgm.st = "ok"
        /\ \A l \in Undeclared : pgm.st = "err" /\ Contains(pgm.msg, l)

\* C12: a text whose lines all assemble and whose references all resolve
\* loads; one with a reference to an undeclared label fails, and the
\* message is that of the first instruction whose label does not resolve:
\* "unknown label" and the name of its label when that label is undeclared
C12_FirstUnresolved ==
    Parsed =>
        /\ AllResolvable => pgm.st = "ok"
        /\ Undeclared # {} => pgm.st = "err"
        /\ pgm.st = "err" =>
              /\ Unresolved # {}
              /\ LET first == CHOOSE i \in Unresolved :
                                 \A j \in Unresolved : i <= j
                     l == pgm.instrs[first].arg
                 IN  /\ Contains(pgm.msg, l)
                     /\ l \in Undeclared => pgm.msg = Msg.unknown \o l

\* two instructions refer to two undeclared labels: the message names the
\* first
C12_Witness ==
    /\ Parsed /\ pgm.st = "err" /\ Cardinality(Undeclared) = 2
    /\ pgm.msg = Msg.unknown \o pgm.instrs[1].arg

\* C13: a load with a branch or call whose label is declared after the
\* last instruction fails, and in a loaded program every target of a branch
\* or call is an index below the number of instructions
C13_TargetsValid ==
    Parsed =>
        /\ (\E i \in Refs : /\ pgm.instrs[i].op \in IcOps
                            /\ pgm.instrs[i].arg \in DOMAIN decl
                            /\ decl[pgm.instrs[i].arg].n = Len(pgm.instrs))
              => pgm.st = "err"
        /\ pgm.st = "ok" =>
              \A i \in Refs : pgm.instrs[i].op \in IcOps =>
                  pgm.instrs[i].val \in 0..(Len(pgm.instrs) - 1)

\* B S with S declared on the last line: the load fails
C13_Witness ==
    /\ Parsed /\ pgm.st = "err" /\ Undeclared = {}
    /\ Len(pgm.instrs) = 1 /\ pgm.instrs[1].op = "B"
    /\ decl[pgm.instrs[1].arg].n = 1

\* C14: an END line ends the loop of parse: the next step is resolve, no
\* later line is read, and parse returns what it returns for the text cut
\* after END, so that lines after END add no error, no instruction and no
\* label
C14_EndStops ==
    /\ [][(phase = "asm" /\ pgm.st = "end") =>
             (phase' = "parsed" /\ nlines' = nlines)]_vars
    /\ [][(phase = "asm" /\ pgm.st = "run" /\ nlines' = nlines + 1
             /\ Line.kind = "end") => pgm'.st = "end"]_vars
    /\ [](Parsed =>
             /\ nlines < Len(text) => text[nlines].kind = "end"
             /\ pgm = parse(dialect,
                            [i \in 1..nlines |-> text[i].text])
             /\ pgm = parse(dialect,
                            [i \in 1..Len(text) |-> text[i].text])
             /\ Len(pgm.instrs) < nlines \/ nlines = Len(text)
             /\ DOMAIN pgm.labels \subseteq
                   {text[i].label : i \in 1..nlines})

\* a program loaded although a malformed line follows its END
C14_Witness ==
    /\ Parsed /\ pgm.st = "ok" /\ nlines = 2 /\ Len(text) = 3
    /\ text[3].kind = "blkbad" /\ Len(pgm.instrs) = 1

\* C15: a BLK line fails the load of an MVM program and leaves the address
\* and the instructions as they were; for an instruction set that accepts
\* BLK the line is accepted exactly when its operand is a whole number that
\* is not negative, and then advances the address by it and emits nothing
C15_Blk ==
    [][(phase = "asm" /\ pgm.st = "run" /\ nlines' = nlines + 1
          /\ Line.kind \in {"blk", "blkbad"}) =>
          /\ pgm'.instrs = pgm.instrs
          /\ IF dialect = "meta" \/ Line.kind = "blkbad"
             THEN pgm'.st = "err" /\ pgm'.addr = pgm.addr
             ELSE pgm'.st = "run" /\ pgm'.addr = pgm.addr + Line.blk]_vars

\* BLK 2 accepted after an instruction of the AVM
C15_Witness ==
    /\ dialect = "avm" /\ phase = "asm" /\ pgm.st = "run"
    /\ nlines = 2 /\ text[2].kind = "blk" /\ blks = 2
    /\ Len(pgm.instrs) = 1 /\ pgm.addr = 4

\* the lines the translator emits for an item: a recognizer is followed by
\* the line given as after, a clause .OUT(*) is not
ItemOut(it, after) ==
    CASE it = "X" -> <<" ", " ", " ", " ", " ", " ", " ", " ", "C", "L", "L", " ", "X", "\n">> \o after
      [] it = "Y" -> <<" ", " ", " ", " ", " ", " ", " ", " ", "T", "S", "T", " ", " ", "'", "Y", "'", "\n">> \o after
      [] it = "O" -> <<" ", " ", " ", " ", " ", " ", " ", " ", "C", "I", " ", "\n", " ", " ", " ", " ", " ", " ", " ", " ", "O", "U", "T", " ", "\n">>

\* the lines for the items of an alternative after its first
RECURSIVE RestOut(_)
RestOut(items) ==
    IF items = <<>> THEN <<>>
    ELSE ItemOut(Head(items), <<" ", " ", " ", " ", " ", " ", " ", " ", "B", "E", " ", "\n">>) \o RestOut(Tail(items))

\* the label of the k-th alternative (the second label generated is the
\* one the alternatives join at)
AltLabel(k) == <<"A">> \o Pad3(IF k = 1 THEN 1 ELSE k + 1)
JoinLabel == <<"A", "0", "0", "2">>

\* the lines for the k-th alternative: BF to its label after a leading
\* recognizer, and the label at column 0 at its end
AltOut(g, k) ==
    (ItemOut(g[k][1], ((<<" ", " ", " ", " ", " ", " ", " ", " ", "B", "F", " ", " ">> \o AltLabel(k)) \o <<" ", "\n">>))
       \o RestOut(Tail(g[k])))
    \o (AltLabel(k) \o <<" ", "\n">>)

\* the lines for the alternatives from the k-th on: BT to the join label
\* before each but the first
RECURSIVE AltsOut(_, _)
AltsOut(g, k) ==
    IF k > Len(g) THEN <<>>
    ELSE ((IF k = 1 THEN <<>>
           ELSE (<<" ", " ", " ", " ", " ", " ", " ", " ", "B", "T", " ", " ">> \o JoinLabel) \o <<" ", "\n">>)
          \o AltOut(g, k)) \o AltsOut(g, k + 1)

\* the whole output for a rule A with the alternatives g
RuleOut(g) ==
    ((<<" ", " ", " ", " ", " ", " ", " ", " ", "A", "D", "R", " ", "A", "\n", "A", "\n">> \o AltsOut(g, 1)) \o (JoinLabel \o <<" ", "\n">>))
    \o <<" ", " ", " ", " ", " ", " ", " ", " ", "R", " ", "\n", " ", " ", " ", " ", " ", " ", " ", " ", "E", "N", "D", " ", "\n", " ", " ", " ", " ", " ", " ", " ", " ">>

\* the text and the output of the test program_works
SelfTestText == <<"\n", ".", "S", "Y", "N", "T", "A", "X", " ", "A", "\n", "\n", "A", " ", "=", " ", " ", "X", " ", "/", " ", "'", "Y", "'", " ", ";", "\n", "\n", ".", "E", "N", "D", "\n">>
SelfTestOut ==
    <<" ", " ", " ", " ", " ", " ", " ", " ", "A", "D", "R", " ", "A", "\n", "A", "\n", " ", " ", " ", " ", " ", " ", " ", " ", "C", "L", "L", " ", "X", "\n", " ", " ", " ", " ", " ", " ", " ", " ", "B", "F", " ", " ", "A", "0", "0", "1", " ", "\n", "A", "0", "0", "1", " ", "\n", " ", " ", " ", " ", " ", " ", " ", " ", "B", "T", " ", " ", "A", "0", "0", "2", " ", "\n", " ", " ", " ", " ", " ", " ", " ", " ", "T", "S", "T", " ", " ", "'", "Y", "'", "\n", " ", " ", " ", " ", " ", " ", " ", " ", "B", "F", " ", " ", "A", "0", "0", "3", " ", "\n", "A", "0", "0", "3", " ", "\n", "A", "0", "0", "2", " ", "\n", " ", " ", " ", " ", " ", " ", " ", " ", "R", " ", "\n", " ", " ", " ", " ", " ", " ", " ", " ", "E", "N", "D", " ", "\n", " ", " ", " ", " ", " ", " ", " ", " ">>

\* C17: for a rule whose alternatives are not empty program() returns
\* Recognized and the output has, for each alternative, BF to a fresh label
\* after a leading recognizer and that label at column 0 at its end, BT to
\* one join label at each "/", and the join label once after the last
\* alternative; for the text of the self-test the output is the asserted one
C17_Alternation ==
    (phase \in {"translated", "done"} /\ \A k \in DOMAIN gram : gram[k] # <<>>)
    => /\ res = "Recognized"
       /\ ~trap /\ stk = <<>>
       /\ output = RuleOut(gram)
       /\ generated(M).ok
       /\ input = SelfTestText => generated(M).out = SelfTestOut

\* the self-test: program() has returned Recognized with the asserted output
C17_Witness ==
    /\ phase = "translated" /\ input = SelfTestText
    /\ gram = << <<"X">>, <<"Y">> >>
    /\ res = "Recognized" /\ output = SelfTestOut

\* the program of the acceptance example, loaded
ExampleProgram == parse("avm", AvmTexts.Example)

InRange(v, s) ==
    /\ v # Huge
    /\ Round(v) >= 0
    /\ Round(v) + Len(s) <= PRINT_AREA_SIZE

\* the print area as edt finds it, seen as 100 columns
Columns(area) == IF area = <<>> THEN Spaces(PRINT_AREA_SIZE) ELSE area

\* C19 as stated: edt on a stack that is not empty pops one value and
\* raises no error; the print area is as it was when the rounded value is
\* negative or the text would end past column 100, otherwise the columns
\* from the value on hold the text and the other columns are as they were
C19_Original ==
    [][(op' = "edt" /\ avm.stack # <<>>) =>
          /\ avm'.stack = SubSeq(avm.stack, 1, Len(avm.stack) - 1)
          /\ avm'.mem = avm.mem /\ avm'.printed = avm.printed
          /\ ~avm'.trap
          /\ IF InRange(Top(avm), ret')
             THEN /\ Len(avm'.print_area) = PRINT_AREA_SIZE
                  /\ \A c \in 1..PRINT_AREA_SIZE :
                        avm'.print_area[c] =
                           IF /\ c > Round(Top(avm))
                              /\ c <= Round(Top(avm)) + Len(ret')
                           THEN ret'[c - Round(Top(avm))]
                           ELSE Columns(avm.print_area)[c]
             ELSE avm'.print_area = avm.print_area]_vars

\* an in-range edt happened since the print area was last empty
Filled == Len(avm.print_area) = PRINT_AREA_SIZE

\* C20: the print area has 0 or 100 columns; it is empty at the start and
\* after every pnt, a push leaves it alone, an edt out of range leaves it
\* as it is, and an edt in range leaves it with 100 columns, blank where
\* nothing was written since it was empty
C20_PrintArea ==
    /\ [](avm.print_area = <<>> \/ Filled)
    /\ [](op = "new" => avm.print_area = <<>>)
    /\ [][op' = "pnt" => avm'.print_area = <<>>]_vars
    /\ [][op' = "push" => avm'.print_area = avm.print_area]_vars
    /\ [][(op' = "edt" /\ avm.stack # <<>> /\ ~avm'.trap) =>
             IF InRange(Top(avm), ret')
             THEN /\ Len(avm'.print_area) = PRINT_AREA_SIZE
                  /\ avm.print_area = <<>> =>
                        \A c \in 1..PRINT_AREA_SIZE :
                           avm'.print_area[c] # " " =>
                              /\ c > Round(Top(avm))
                              /\ c <= Round(Top(avm)) + Len(ret')
             ELSE Len(avm'.print_area) = Len(avm.print_area)]_vars

\* 100 columns again after a line was printed and a text edited at
\* column 98
C20_Witness ==
    /\ op = "edt" /\ Filled /\ avm.printed # <<>>
    /\ avm.print_area[99] = "a" /\ avm.print_area[1] = " "

\* the first offset at or after p of a character of s that is not ASCII
\* whitespace, the length of s if there is none
FirstNonWs(s, p) ==
    CHOOSE q \in p..Len(s) :
        /\ \A k \in p..(q - 1) : s[k + 1] \in AsciiWs
        /\ q = Len(s) \/ s[q + 1] \notin AsciiWs

\* C21: each scanning primitive (TST, ID, NUM, SR) first skips ASCII
\* whitespace from pos; on success it sets sw true, sets last to exactly the
\* span from the first non-whitespace character to the new pos; on failure
\* it sets sw false, leaves last unchanged and leaves pos at the first
\* non-whitespace character at or after the old pos.
C21_Scan ==
    [][op' \in ScanOps =>
         /\ input' = input
         /\ ret' = sw'
         /\ IF sw'
            THEN /\ pos' >= FirstNonWs(input, pos)
                 /\ last' = Slice(input, FirstNonWs(input, pos), pos')
            ELSE /\ pos' = FirstNonWs(input, pos)
                 /\ last' = last]_vars

\* ID has failed on the digit after the whitespace that follows the
\* identifier matched before: last is still that identifier
C21_Witness ==
    /\ op = "id" /\ ~sw
    /\ input = <<"a", " ", "1">> /\ pos = 2 /\ last = <<"a">>

\* the end of the longest run of digits and dots of s that starts at p
RunEnd(s, p) ==
    CHOOSE q \in p..Len(s) :
        /\ \A k \in p..(q - 1) : s[k + 1] \in AsciiDigit \cup {"."}
        /\ q = Len(s) \/ s[q + 1] \notin AsciiDigit \cup {"."}

\* the run begins with a digit, does not end with a dot and holds no ".."
WellFormed(run) ==
    /\ run # <<>> /\ run[1] \in AsciiDigit
    /\ run[Len(run)] # "."
    /\ ~\E i \in 1..(Len(run) - 1) : run[i] = "." /\ run[i + 1] = "."

\* C22: NUM succeeds if and only if the maximal run of digits and dots that
\* starts at the first non-whitespace position begins with a digit, does not
\* end with a dot and does not contain ".."; on success last is that entire
\* run and pos its end, on failure nothing of the run is consumed.
C22_Num ==
    [][op' = "num" =>
         LET p0 == FirstNonWs(input, pos)
             run == Slice(input, p0, RunEnd(input, p0))
         IN  /\ sw' <=> WellFormed(run)
             /\ sw' => (last' = run /\ pos' = RunEnd(input, p0))
             /\ ~sw' => (last' = last /\ pos' = p0)]_vars

\* NUM has taken 0.1.2 whole
C22_Witness ==
    /\ op = "num" /\ sw
    /\ input = <<"0", ".", "1", ".", "2">> /\ last = input /\ pos = 5

\* C23 as claimed: SR succeeds only on a quoted string with an opening quote
\* and a later, distinct closing quote, and then last includes both quotes
\* (length >= 2); whenever the opening quote at the scan position has no
\* closing quote after it in the input, SR fails with sw false, last
\* unchanged and pos left at the opening quote.
C23_Original ==
    [][op' = "sr" =>
         LET p0 == FirstNonWs(input, pos)
             opens == p0 < Len(input) /\ input[p0 + 1] = "'"
             closed == \E q \in (p0 + 1)..(Len(input) - 1) : input[q + 1] = "'"
         IN  /\ sw' => /\ opens /\ closed
                       /\ Len(last') >= 2
                       /\ last'[1] = "'" /\ last'[Len(last')] = "'"
             /\ (opens /\ ~closed) =>
                    (~sw' /\ last' = last /\ pos' = p0)]_vars

\* the instruction the loop of execute fetches
Fetched == pgm.instrs[ic + 1]

\* C24: in execute, CLL at index i pushes the return index i + 1 and
\* continues at its target, R continues at the popped return index, a branch
\* continues at its target when taken, and every instruction that does not
\* branch continues at i + 1; execution halts through R exactly when the
\* popped return index is 0, which is then the frame of the implicit
\* top-level cll(0), and the stack is empty.
C24_Control ==
    [][(Fetching /\ ic < Len(pgm.instrs) /\ ~trap') =>
         /\ Fetched.op = "CLL" =>
               /\ ic' = Fetched.val /\ phase' = "exec"
               /\ ret' = ic + 1
               /\ stk'[Len(stk') - 2] = Back(ic + 1, stk'[Len(stk') - 2].blanks)
         /\ Fetched.op = "R" =>
               /\ ic' = ret'
               /\ Len(stk) >= 3 /\ stk[Len(stk) - 2].t = "Back"
               /\ ret' = stk[Len(stk) - 2].ric
               /\ phase' = "halted" <=> ret' = 0
               /\ ret' = 0 => /\ Len(frames) = 1 /\ frames[1].stk0 = <<>>
                              /\ stk' = <<>>
         /\ Fetched.op = "B" => (ic' = Fetched.val /\ phase' = "exec")
         /\ Fetched.op = "BT" =>
               (ic' = (IF sw THEN Fetched.val ELSE ic + 1) /\ phase' = "exec")
         /\ Fetched.op = "BF" =>
               (ic' = (IF sw THEN ic + 1 ELSE Fetched.val) /\ phase' = "exec")
         /\ Fetched.op = "BE" =>
               IF sw THEN ic' = ic + 1 /\ phase' = "exec"
               ELSE phase' = "halted" /\ halt' = "BE"
         /\ Fetched.op \notin {"CLL", "R", "B", "BT", "BF", "BE"} =>
               (ic' = ic + 1 /\ phase' = "exec")
         /\ halt' = "R" <=> (Fetched.op = "R" /\ ret' = 0)]_vars

\* execution has halted through R after a rule called by CLL was given a
\* label and returned
C24_Witness ==
    /\ phase = "halted" /\ halt = "R" /\ op = "r" /\ ret = 0
    /\ stk = <<>> /\ a_cnt = 1

\* execute is running or has run, and the frame its prolog pushed is open
ImplicitOpen ==
    /\ phase \in {"exec", "halted", "done"}
    /\ stk # <<>> /\ stk[1] = Back(0, FALSE)

\* C25 as claimed: the two label slots pushed by the implicit top-level CLL
\* of execute are never filled by GN1 / GN2: every label allocated during a
\* run is stored in a frame pushed by an explicit CLL instruction, and the
\* slots of the implicit frame are still empty when it is popped.
C25_Original ==
    ImplicitOpen =>
        /\ (Len(stk) >= 3 /\ stk[2].t = "Lb") =>
               (stk[2].s = <<>> /\ stk[3].s = <<>>)
        /\ frames[1].a = <<>> /\ frames[1].b = <<>>

\* C25 as amended: execute enters the start rule by a jump to the target of
\* ADR, without a CLL, so the slots of the implicit frame are the label
\* slots of the start rule: GN1 / GN2 executed while no explicit CLL is
\* open consult and fill them, and GN1 / GN2 executed inside a rule entered
\* by an explicit CLL use the frame that CLL pushed and leave the stack
\* below it, the implicit frame included, as it was.
C25_StartRuleFrame ==
    [][((At("GN1") \/ At("GN2")) /\ ~trap') =>
         LET sz == Len(stk')
             slot == IF Fetched.op = "GN1" THEN sz - 1 ELSE sz
         IN  /\ sz = Len(stk) /\ sz >= 3
             /\ stk'[sz - 2].t = "Back"
             /\ stk'[slot] = Lb(ret')
             /\ SubSeq(stk', 1, sz - 3) = SubSeq(stk, 1, sz - 3)
             /\ stk'[sz - 2].ric = 0 <=> Len(frames) = 1
             /\ Len(frames) = 1 => (sz = 3 /\ stk'[1] = Back(0, FALSE))]_vars

\* the start rule has been given the first A-label: it is in the slot of
\* the implicit frame
C25_Witness ==
    /\ phase = "exec" /\ op = "gn1" /\ a_cnt = 1
    /\ stk = <<Back(0, FALSE), Lb(<<"A", "0", "0", "1">>), Lb(<<>>)>>

\* the output up to and including its most recent newline
Final(o) == SubSeq(o, 1, RFindNl(o) + 1)

\* C26: no operation modifies or removes output text up to and including
\* the most recent newline: LB removes exactly the characters after the
\* last newline (everything if there is none) and CL, CI, GN1, GN2 and OUT
\* only append.
C26_LinesFinal ==
    [][/\ StartsWith(output', Final(output))
       /\ op' = "lb" => output' = Final(output)
       /\ op' \in {"cl", "ci", "gn1", "gn2", "out"} =>
              StartsWith(output', output)
       /\ op' \notin {"lb", "cl", "ci", "gn1", "gn2", "out"} =>
              output' = output]_vars

\* LB has removed the indentation that followed the line completed by OUT
\* and left that line as it was
C26_Witness ==
    /\ op = "lb"
    /\ output = <<"X", " ", "\n">>

\* C27: for every AVM assembly text, the assembler built into valgol1m and
\* the assembler of mparse with the instruction set of the AVM (BLK
\* accepted) give the same outcome: both fail, or both succeed with the
\* same instruction sequence, the same label-to-address map and the same
\* address-to-index map.
C27_OneAssembler ==
    (pgm.st # "run" /\ op = "parse") =>
        /\ pgm.st = "ok" <=> ret.st = "ok"
        /\ pgm.st = "ok" =>
              /\ ret.instrs = pgm.instrs
              /\ ret.labels = pgm.labels
              /\ ret.ic = pgm.ic

\* both have assembled a text with a reserved block, a memory reference
\* and a branch
C27_Witness ==
    /\ pgm.st = "ok" /\ op = "parse" /\ ret.st = "ok"
    /\ text = <<<<" ", "B", "L", "K", " ", "2">>, <<"T">>, <<" ", "L", "D", " ", "T">>>>
    /\ pgm.instrs[1].val = 2

\* a step of SpecLex in which next_token was called
LexCalled == phase = "lex" /\ nlines' = nlines

\* C28: whitespace is emitted as tokens: next_token returns WS exactly when
\* the text left starts with whitespace, the WS token takes the whole maximal
\* run of whitespace, and a WS token is never followed by another WS token;
\* and no line makes the assembler reach its repeated whitespace token trap.
C28_OneWS ==
    /\ [][LexCalled =>
            /\ (ret'.ok /\ ret'.tok.k = "WS")
                  <=> (lx.it # <<>> /\ Head(lx.it) \in AsciiWs)
            /\ (ret'.ok /\ ret'.tok.k = "WS")
                  => /\ FirstNonWs(lx.it, 0) > 0
                     /\ lx'.it = From(lx.it, FirstNonWs(lx.it, 0))
            /\ (op = "next_token" /\ ret.ok /\ ret.tok.k = "WS")
                  => ~(ret'.ok /\ ret'.tok.k = "WS")]_vars
    /\ [](pgm.st # "panic")

\* a WS token was returned for a run of two whitespace characters and an
\* operand is left, and the line with that run after its mnemonic has been
\* assembled into an instruction
C28_Witness ==
    /\ phase = "lex" /\ op = "next_token" /\ ret.ok /\ ret.tok.k = "WS"
    /\ text = << <<" ", "B", " ", " ", "A", " ", "#", " ", "j", "u", "m", "p">> >>
    /\ lx.it = <<"A", " ", "#", " ", "j", "u", "m", "p">>
    /\ nlines = 1 /\ Len(pgm.instrs) = 1 /\ pgm.addr = 2


\* C29: every Symbol token next_token returns is an entry of the symbol
\* table the lexer was made with, never a proper prefix of an entry that is
\* not itself an entry.
C29_Original ==
    (phase = "lex" /\ op = "next_token" /\ ret.ok /\ ret.tok.k = "Symbol")
        => ret.tok.v \in lx.syms


\* the stack s is a sequence of Back markers, each followed by its two label
\* slots or, its slots taken away by the next call, directly by the marker
\* of that call, which has blanks set; the topmost marker has its slots
MarkersAndSlots(s) ==
    /\ s # <<>> =>
          /\ Len(s) >= 3 /\ s[1].t = "Back" /\ ~s[1].blanks
          /\ s[Len(s) - 2].t = "Back"
          /\ s[Len(s) - 1].t = "Lb" /\ s[Len(s)].t = "Lb"
    /\ \A i \in 1..Len(s) :
          s[i].t = "Back" =>
             /\ \/ /\ i + 2 <= Len(s)
                   /\ s[i + 1].t = "Lb" /\ s[i + 2].t = "Lb"
                   /\ i + 3 <= Len(s) =>
                         s[i + 3].t = "Back" /\ ~s[i + 3].blanks
                \/ /\ i + 1 <= Len(s)
                   /\ s[i + 1].t = "Back" /\ s[i + 1].blanks

\* C30: in every state the stack is empty or ends with a Back marker and two
\* label slots, every marker below being followed by its two slots or by the
\* marker of the call that took them away; so R, GN1 and GN2 trap only on
\* the empty stack.
C30_StackShape ==
    /\ MarkersAndSlots(stk)
    /\ (trap /\ op \in {"r", "gn1", "gn2"}) => stk = <<>>

\* GN1 and GN2 have filled the slots of a call that took the blank slots of
\* the call below it
C30_Witness ==
    /\ op = "gn2" /\ ~trap /\ Len(stk) = 4
    /\ stk[1].t = "Back" /\ stk[2].t = "Back" /\ stk[2].blanks
    /\ stk[3].s # <<>> /\ stk[4].s # <<>>

\* C31: removing blank slots cannot be observed: after every sequence of
\* cll, r, gn1 and gn2 calls the machine and the reference machine, whose cll
\* removes nothing, have the same output, a_cnt and b_cnt and have trapped or
\* not alike, and every r returns the same index on both.
C31_Unobservable ==
    /\ [](/\ refm.output = output
          /\ refm.a_cnt = a_cnt /\ refm.b_cnt = b_cnt
          /\ refm.trap = trap)
    /\ [][op' = "r" => ret' = r_ric(refm)]_vars

\* GN1 and GN2 have emitted labels in a frame whose cll removed the blank
\* slots of the frame below: the stack of the machine is two slots shorter
\* than that of the reference machine
C31_Witness ==
    /\ op = "gn2" /\ ~trap /\ a_cnt = 1 /\ b_cnt = 1
    /\ Len(stk) = 4 /\ stk[2].blanks /\ Len(refm.stk) = 6
    /\ output = Spaces(8) \o <<"A", "0", "0", "1", " ", "B", "0", "0", "1", " ">>


\* C32: out1, output, ex3, ex2 and ex1 leave the stack as they found it
\* whatever they return, and program() never ends in the panic internal
\* recursion stack error: it leaves the stack empty and main reports.
C32_Original ==
    [][/\ op' \in {"out1", "output", "ex3", "ex2", "ex1"} =>
             (stk' = stk /\ ~trap')
       /\ phase' = "translated" => (stk' = <<>> /\ ~trap')]_vars


\* C33: when program() has returned Err or Unrecognized sw is false and
\* generated() is the error; when it has returned Recognized sw is true; so
\* main, which looks at generated() alone, prints the output exactly when
\* program() returned Recognized and only whitespace is left of the input,
\* and the unexpected report otherwise.
C33_GeneratedDecides ==
    (phase \in {"translated", "done"} /\ ~trap) =>
        /\ res \in {"Recognized", "Unrecognized", "Err"}
        /\ res \in {"Unrecognized", "Err"} => (~sw /\ ~generated(M).ok)
        /\ res = "Recognized" => sw
        /\ phase = "done" =>
              IF res = "Recognized" /\ AllWs(From(input, pos))
              THEN printed = output \o <<"\n">>
              ELSE printed = (Unexpected \o left(M)) \o <<"\n">>

\* program() returned Recognized but text is left after .END: main has
\* printed the unexpected report with that text
C33_Witness ==
    /\ phase = "done" /\ res = "Recognized" /\ sw
    /\ gram = <<"S", "A", "A", "=", "X", ";", "E", "X">>
    /\ printed = (Unexpected \o <<"X">>) \o <<"\n">>


\* the offsets (from 1) at which the lines of the text o start
LineStarts(o) == {i \in 1..Len(o) : i = 1 \/ o[i - 1] = "\n"}

\* the text t stands in o at offset i
HasAt(o, i, t) ==
    i + Len(t) - 1 <= Len(o) /\ SubSeq(o, i, i + Len(t) - 1) = t

\* the lines of o that define the label l: l at column 0, then a space or
\* the end of the line
DefsOf(o, l) ==
    {i \in LineStarts(o) :
        HasAt(o, i, l \o <<" ">>) \/ HasAt(o, i, l \o <<"\n">>)}

\* the lines of o that are a BF or a BT, and those whose operand is l
Branches(o) ==
    {i \in LineStarts(o) :
        \E b \in {"F", "T"} : HasAt(o, i, Spaces(8) \o <<"B", b, " ", " ">>)}
BranchesTo(o, l) ==
    {i \in LineStarts(o) :
        \E b \in {"F", "T"} :
            HasAt(o, i, ((Spaces(8) \o <<"B", b, " ", " ">>) \o l) \o <<" ", "\n">>)}

\* the labels GN1 has allocated
GenLabels == {<<"A">> \o Pad3(k) : k \in 1..a_cnt}

\* main has printed the translation
Translated ==
    phase = "done" /\ res = "Recognized" /\ ~trap /\ generated(M).ok

\* C34 as stated: in the output of a successful translation every label
\* GN1 allocated is defined at column 0 exactly once, and the operand of
\* every BF and BT is one of these labels.
C34_Original ==
    Translated =>
        /\ \A l \in GenLabels : Cardinality(DefsOf(output, l)) = 1
        /\ \A i \in Branches(output) :
              \E l \in GenLabels : i \in BranchesTo(output, l)

\* C34, amended: the same when no rule of the grammar is named like a
\* generated label; moreover a label defined before a BT to it, which is
\* the label of a loop $X, is the operand of that one branch only.
C34_LabelsDefined ==
    (Translated /\ \A k \in DOMAIN gram : gram[k] # "L") =>
        /\ \A l \in GenLabels :
              /\ Cardinality(DefsOf(output, l)) = 1
              /\ (\E d \in DefsOf(output, l) :
                    \E i \in BranchesTo(output, l) : d < i)
                    => Cardinality(BranchesTo(output, l)) = 1
        /\ \A i \in Branches(output) :
              \E l \in GenLabels : i \in BranchesTo(output, l)

\* the rule A = $ X / 'Y' ; has been translated: the loop label A001 is
\* defined before CLL X and is the operand of the BT after it, and the other
\* three labels are defined after the one branch to each
C34_Witness ==
    /\ Translated
    /\ gram = <<"S", "A", "A", "=", "$", "X", "/", "Y", ";", "E">>
    /\ a_cnt = 4
    /\ \E d \in DefsOf(output, <<"A", "0", "0", "1">>) :
          /\ HasAt(output, d + 6, Spaces(8) \o <<"C", "L", "L", " ", "X", "\n">>)
          /\ d + 20 \in BranchesTo(output, <<"A", "0", "0", "1">>)
    /\ Cardinality(Branches(output)) = 4


\* C35: the recognizers end on every input: pos never goes back, a
\* recognizer that returns Recognized, on which alone a loop goes round once
\* more, has moved pos forward, and program() and every recognizer called
\* return or trap.
C35_Terminates ==
    [][/\ op' \in {"out1", "output", "ex3", "ex2", "ex1", "st"} =>
             /\ pos' >= pos
             /\ res' \in {"Recognized", "Unrecognized", "Err", "Panic"}
             /\ res' = "Recognized" => pos' > pos
       /\ phase' = "translated" =>
             /\ pos' >= pos
             /\ res' \in {"Recognized", "Unrecognized", "Err", "Panic"}]_vars

\* ex2 has returned Recognized from the loop it makes for the items after
\* the first, having gone through ( and $ on its way
C35_Witness ==
    /\ op = "ex2" /\ res = "Recognized" /\ ~trap
    /\ gram = <<"(", "$", "X", ")">>
    /\ pos = Len(input) /\ stk = <<>>


\* C36: on a loaded program whose instruction 0 is ADR, execute never
\* fetches an instruction at an index past the last one: whenever the loop
\* is about to fetch pgm.instrs[ic], ic is less than the number of
\* instructions.
C36_Original ==
    (/\ pgm.st = "ok" /\ pgm.instrs # <<>> /\ pgm.instrs[1].op = "ADR"
     /\ Fetching)
        => ic < Len(pgm.instrs)


\* the identifier a line starts with: its longest prefix of ASCII letters
\* and digits
RECURSIVE IdPrefix(_)
IdPrefix(s) ==
    IF s # <<>> /\ Head(s) \in AsciiAlnum
    THEN <<Head(s)>> \o IdPrefix(Tail(s)) ELSE <<>>

\* C37: a line that starts with an identifier only declares that label,
\* whatever follows it on the line: the label gets the current address, the
\* address gets the current number of instructions, no instruction is
\* added, the address stays, and the loop goes on without an error.
C37_LabelOnly ==
    [][(/\ nlines' = nlines + 1
        /\ text[nlines'] # <<>>
        /\ text[nlines'][1] \in AsciiAlpha)
          => /\ pgm'.labels = Put(pgm.labels, IdPrefix(text[nlines']), pgm.addr)
             /\ pgm'.ic = Put(pgm.ic, pgm.addr, Len(pgm.instrs))
             /\ pgm'.instrs = pgm.instrs
             /\ pgm'.addr = pgm.addr
             /\ pgm'.st = "run" /\ pgm'.msg = pgm.msg]_vars

\* the assembler of valgol1m has read an instruction and then a label line
\* that goes on with what would be an instruction
C37_Witness ==
    /\ dialect = "valgol1m" /\ nlines = 2
    /\ text[1] = <<" ", "L", "D", " ", "T", "1">>
    /\ text[2] = <<"T", "1", " ", "L", "D", " ", "T", "1">>
    /\ pgm.st = "run" /\ Len(pgm.instrs) = 1 /\ pgm.addr = 2
    /\ pgm.labels = (<<"T", "1">> :> 2)
    /\ pgm.ic = (2 :> 1)


\* C38: recognition state and translation state are independent: cl, ci,
\* gn1, gn2, out, lb, cll and r leave pos, sw and last as they were; tst,
\* id, num, sr, set and be leave output, the stack, a_cnt and b_cnt as they
\* were; and a step that changes sw is one of tst, id, num, sr and set.
C38_Independent ==
    [][/\ op' \in {"cl", "ci", "gn1", "gn2", "out", "lb", "cll", "r"} =>
             pos' = pos /\ sw' = sw /\ last' = last
       /\ op' \in {"tst", "id", "num", "sr", "set", "be"} =>
             /\ output' = output /\ stk' = stk
             /\ a_cnt' = a_cnt /\ b_cnt' = b_cnt
       /\ sw' # sw => op' \in {"tst", "id", "num", "sr", "set"}]_vars

\* the identifier was recognized after the number had been copied to the
\* output inside a call that has allocated a label
C38_Witness ==
    /\ op = "id" /\ sw /\ ~trap
    /\ last = <<"a", "b", "c", "d">> /\ pos = 8
    /\ output = <<"A", "0", "0", "1", " ", "1", "2", "3", "4">>
    /\ a_cnt = 1 /\ Len(stk) = 3

====
